---- MODULE Spec2Model ----
(***************************************************************************)
(* Quirm: the request-serving pipeline of pkg/handlers (HandleRequest,     *)
(* handlePurge, updateCache, serveFile), the atomic writer of pkg/storage, *)
(* the tiered cache and the cleaner of pkg/cache, and the URL signature    *)
(* check.                                                                  *)
(*                                                                         *)
(* Strings are sequences of one-character strings, so that concatenation,  *)
(* lexicographic sorting and decimal parsing are computed, not assumed.    *)
(* SHA-256 and HMAC-SHA-256 are injective: a digest is modelled by the     *)
(* byte string it was computed from.                                       *)
(***************************************************************************)
EXTENDS Integers, Sequences, FiniteSets, TLC

(***************************************************************************)
(* Bounds of the model.                                                    *)
(***************************************************************************)
MaxRequests == 2   \* requests received in one behaviour, each by its own handler

(***************************************************************************)
(* Strings.                                                                *)
(***************************************************************************)
\* The characters the model uses, in byte order.
Alphabet == <<"&", "+", "-", ".", "/",
              "0", "1", "2", "3", "4", "5", "6", "7", "8", "9", "=", "?",
              "a", "b", "c", "d", "e", "f", "g", "h", "i", "j", "k", "l", "m",
              "n", "o", "p", "q", "r", "s", "t", "u", "v", "w", "x", "y", "z">>

Ord(c) == CHOOSE i \in 1..Len(Alphabet) : Alphabet[i] = c

Digits == <<"0", "1", "2", "3", "4", "5", "6", "7", "8", "9">>

IsDigit(c) == \E i \in 1..Len(Digits) : Digits[i] = c

DigitVal(c) == (CHOOSE i \in 1..Len(Digits) : Digits[i] = c) - 1

\* Go's string comparison: bytewise lexicographic, a proper prefix is smaller.
RECURSIVE StrLess(_, _)
StrLess(a, b) ==
    IF b = <<>> THEN FALSE
    ELSE IF a = <<>> THEN TRUE
    ELSE IF Head(a) = Head(b) THEN StrLess(Tail(a), Tail(b))
    ELSE Ord(Head(a)) < Ord(Head(b))

\* sort.Strings over a set of distinct strings.
RECURSIVE SortStrings(_)
SortStrings(S) ==
    IF S = {} THEN <<>>
    ELSE LET m == CHOOSE x \in S : \A y \in S \ {x} : StrLess(x, y)
         IN  <<m>> \o SortStrings(S \ {m})

\* strings.Contains
Contains(s, sub) ==
    \E i \in 0..(Len(s) - Len(sub)) : SubSeq(s, i + 1, i + Len(sub)) = sub

\* strconv.ParseInt(s, 10, 64) / strconv.Atoi for the values of the model
\* (all far below the 64-bit range): an optional sign, then one digit or more.
RECURSIVE DigitsValue(_, _)
DigitsValue(s, acc) ==
    IF s = <<>> THEN acc ELSE DigitsValue(Tail(s), acc * 10 + DigitVal(Head(s)))

ParseIntBody(s) == IF s # <<>> /\ Head(s) \in {"+", "-"} THEN Tail(s) ELSE s

ParseIntOk(s) ==
    /\ ParseIntBody(s) # <<>>
    /\ \A i \in 1..Len(ParseIntBody(s)) : IsDigit(ParseIntBody(s)[i])

ParseIntVal(s) ==
    IF s # <<>> /\ Head(s) = "-"
    THEN 0 - DigitsValue(ParseIntBody(s), 0)
    ELSE DigitsValue(ParseIntBody(s), 0)

\* Atoi with the error ignored: the zero value on failure.
AtoiOrZero(s) == IF ParseIntOk(s) THEN ParseIntVal(s) ELSE 0

(***************************************************************************)
(* url.Values: a function from parameter names to the non-empty list of    *)
(* the values given for that name, in the order of the query string.       *)
(***************************************************************************)
RECURSIVE ParseQuery(_)
\* r.URL.Query() on a query given as its list of <<name, value>> pairs.
ParseQuery(pairs) ==
    IF pairs = <<>> THEN <<>>
    ELSE LET rest == ParseQuery(SubSeq(pairs, 1, Len(pairs) - 1))
             k    == pairs[Len(pairs)][1]
             v    == pairs[Len(pairs)][2]
         IN  IF k \in DOMAIN rest
             THEN [rest EXCEPT ![k] = Append(@, v)]
             ELSE [x \in (DOMAIN rest) \cup {k} |->
                      IF x = k THEN <<v>> ELSE rest[x]]

\* A lookup that returns the last value given for the name.
GetLast(params, k) ==
    IF k \in DOMAIN params THEN params[k][Len(params[k])] ELSE <<>>

\* url.Values.Get: the first value of the name, "" when the name is absent.
Get(params, k) == IF k \in DOMAIN params THEN params[k][1] ELSE <<>>

(***************************************************************************)
(* Names and literals of the program, spelled as strings.                  *)
(***************************************************************************)
Str_s == <<"s">>
Str_w == <<"w">>
Str_h == <<"h">>
Str_fit == <<"f", "i", "t">>
Str_format == <<"f", "o", "r", "m", "a", "t">>
Str_blurhash == <<"b", "l", "u", "r", "h", "a", "s", "h">>
Str_animated == <<"a", "n", "i", "m", "a", "t", "e", "d">>
Str_q == <<"q">>
Str_text == <<"t", "e", "x", "t">>
Str_preset == <<"p", "r", "e", "s", "e", "t">>
Str_expires == <<"e", "x", "p", "i", "r", "e", "s">>
Str_true == <<"t", "r", "u", "e">>
Str_jpeg == <<"j", "p", "e", "g">>
Str_webp == <<"w", "e", "b", "p">>
Str_avif == <<"a", "v", "i", "f">>
Str_br == <<"b", "r">>
Str_gzip == <<"g", "z", "i", "p">>
Str_identity == <<"i", "d", "e", "n", "t", "i", "t", "y">>
Str_imageAvif == <<"i", "m", "a", "g", "e", "/">> \o Str_avif
Str_imageWebp == <<"i", "m", "a", "g", "e", "/">> \o Str_webp
Str_dotdot == <<".", ".">>
Str_dotenv == <<".", "e", "n", "v">>

ImageExts == { <<".", "j", "p", "g">>, <<".", "j", "p", "e", "g">>,
               <<".", "p", "n", "g">>, <<".", "g", "i", "f">>,
               <<".", "w", "e", "b", "p">>, <<".", "p", "d", "f">> }

VideoExts == { <<".", "m", "p", "4">>, <<".", "m", "o", "v">>,
               <<".", "w", "e", "b", "m">> }

UpperCase == <<"G", "N", "P">>
LowerCase == <<"g", "n", "p">>

\* strings.ToLower over the letters of the model.
ToLower(s) ==
    [i \in 1..Len(s) |->
        IF \E j \in 1..Len(UpperCase) : UpperCase[j] = s[i]
        THEN LowerCase[CHOOSE j \in 1..Len(UpperCase) : UpperCase[j] = s[i]]
        ELSE s[i]]

\* filepath.Ext: the suffix from the last dot of the last path element.
Ext(key) ==
    LET stops == {i \in 1..Len(key) : key[i] \in {".", "/"}}
    IN  IF stops = {} THEN <<>>
        ELSE LET i == CHOOSE j \in stops : \A m \in stops : m <= j
             IN  IF key[i] = "." THEN SubSeq(key, i, Len(key)) ELSE <<>>

isImageFile(key) == ToLower(Ext(key)) \in ImageExts

isVideoFile(key) == ToLower(Ext(key)) \in VideoExts

\* strings.TrimPrefix(cleanedPath, "/")
ObjectKey(path) == IF path # <<>> /\ Head(path) = "/" THEN Tail(path) ELSE path

\* The path check of HandleRequest: true when the request is answered 400.
InvalidPath(objectKey) ==
    \/ Contains(objectKey, Str_dotdot)
    \/ objectKey = Str_dotenv
    \/ objectKey = <<>>

(***************************************************************************)
(* URL signatures.                                                         *)
(***************************************************************************)
\* hex(HMAC-SHA-256(secret, msg)), injective in (secret, msg); secrets hold
\* no "#", and no string a client makes up starts with "#".
Hmac(secret, msg) == <<"#">> \o secret \o <<"#">> \o msg

\* The names that are signed, sorted.
SignedKeys(params) == SortStrings((DOMAIN params) \ {Str_s})

RECURSIVE JoinPairs(_, _)
JoinPairs(keys, params) ==
    IF keys = <<>> THEN <<>>
    ELSE Head(keys) \o <<"=">> \o Get(params, Head(keys))
         \o (IF Len(keys) > 1 THEN <<"&">> ELSE <<>>)
         \o JoinPairs(Tail(keys), params)

\* The string validateSignature signs.
CanonicalString(path, params) ==
    path \o (IF SignedKeys(params) # <<>> THEN <<"?">> ELSE <<>>)
         \o JoinPairs(SignedKeys(params), params)

\* A validation without the expiry check.
ExpiryRefusesNothing(params, now) == FALSE

\* The expiry check of validateSignature: true when the request is refused.
ExpiryRefuses(params, now) ==
    LET expiresStr == Get(params, Str_expires)
    IN  IF expiresStr # <<>>
        THEN IF ParseIntOk(expiresStr) THEN now > ParseIntVal(expiresStr)
             ELSE TRUE
        ELSE FALSE

validateSignature(path, params, secret, now) ==
    IF ExpiryRefuses(params, now) THEN FALSE
    ELSE Get(params, Str_s) = Hmac(secret, CanonicalString(path, params))

(***************************************************************************)
(* Cache keys.  SHA-256 is the identity on the bytes written to it.        *)
(***************************************************************************)
GenerateKeyOriginal(key, encoding) == key \o encoding

RECURSIVE ConcatPairs(_, _)
ConcatPairs(keys, params) ==
    IF keys = <<>> THEN <<>>
    ELSE Head(keys) \o Get(params, Head(keys)) \o ConcatPairs(Tail(keys), params)

GenerateKeyProcessed(key, params, format) ==
    key \o ConcatPairs(SignedKeys(params), params) \o format

(***************************************************************************)
(* Transform options, as far as they steer the pipeline.                   *)
(***************************************************************************)
ParseOptionsPlain(params) ==
    [ Width    |-> AtoiOrZero(Get(params, Str_w)),
      Height   |-> AtoiOrZero(Get(params, Str_h)),
      Fit      |-> Get(params, Str_fit),
      Format   |-> Get(params, Str_format),
      Quality  |-> AtoiOrZero(Get(params, Str_q)),
      Text     |-> Get(params, Str_text),
      Blurhash |-> Get(params, Str_blurhash) \in {Str_true, <<"1">>},
      Animated |-> Get(params, Str_animated) \in {Str_true, <<"1">>} ]

\* A preset of the configuration: its query, and whether url.ParseQuery
\* accepts it.
Preset(ok, query) == [ok |-> ok, query |-> query]

\* An option parser that does not know presets.
parseImageOptionsWithoutPresets(params, presets) == ParseOptionsPlain(params)

\* presets maps a preset name to the preset.
parseImageOptions(params, presets) ==
    LET presetName == Get(params, Str_preset)
    IN  IF /\ presetName # <<>>
           /\ presetName \in DOMAIN presets
           /\ presets[presetName].ok
        THEN ParseOptionsPlain(ParseQuery(presets[presetName].query))
        ELSE ParseOptionsPlain(params)

WantsTransform(opts) ==
    \/ opts.Width > 0
    \/ opts.Height > 0
    \/ opts.Fit # <<>>
    \/ opts.Format # <<>>
    \/ opts.Blurhash

\* HandleRequest: the options after the video default and the Accept
\* negotiation.
NegotiatedOptions(objectKey, params, accept, cfg) ==
    LET o0 == parseImageOptions(params, cfg.Presets)
        o1 == IF isVideoFile(objectKey) /\ cfg.EnableVideoThumbnail
                 /\ o0.Format = <<>>
              THEN [o0 EXCEPT !.Format = Str_jpeg] ELSE o0
    IN  IF isImageFile(objectKey) /\ o1.Format = <<>>
        THEN IF Contains(accept, Str_imageAvif)
             THEN [o1 EXCEPT !.Format = Str_avif]
             ELSE IF Contains(accept, Str_imageWebp)
                  THEN [o1 EXCEPT !.Format = Str_webp]
                  ELSE o1
        ELSE o1

ShouldProcess(objectKey, opts, cfg) ==
    \/ isImageFile(objectKey) /\ WantsTransform(opts)
    \/ isVideoFile(objectKey) /\ cfg.EnableVideoThumbnail

\* HandleRequest: the passthrough encoding negotiated from Accept-Encoding.
EncodingType(acceptEncoding) ==
    IF Contains(acceptEncoding, Str_br) THEN Str_br
    ELSE IF Contains(acceptEncoding, Str_gzip) THEN Str_gzip
    ELSE Str_identity

\* HandleRequest: the cache key a GET is served under.
RequestCacheKey(rq, cfg) ==
    LET objectKey == ObjectKey(rq.path)
        params    == ParseQuery(rq.query)
        opts      == NegotiatedOptions(objectKey, params, rq.accept, cfg)
    IN  IF ShouldProcess(objectKey, opts, cfg)
        THEN GenerateKeyProcessed(objectKey, params, opts.Format)
        ELSE GenerateKeyOriginal(objectKey, EncodingType(rq.acceptEncoding))

\* handlePurge: the cache key a DELETE removes.
PurgeCacheKey(rq, cfg) ==
    LET objectKey == ObjectKey(rq.path)
        params    == ParseQuery(rq.query)
        opts      == parseImageOptions(params, cfg.Presets)
    IN  IF ShouldProcess(objectKey, opts, cfg)
        THEN GenerateKeyProcessed(objectKey, params, opts.Format)
        ELSE GenerateKeyOriginal(objectKey, Str_identity)

(***************************************************************************)
(* The requests and configurations the model draws from.                   *)
(***************************************************************************)
Request(method, path, query, accept, acceptEncoding, inm, now) ==
    [ method |-> method, path |-> path, query |-> query, accept |-> accept,
      acceptEncoding |-> acceptEncoding,
      inm |-> inm,     \* If-None-Match holds the entity tag of the variant
      now |-> now ]    \* time.Now().Unix() when the signature is checked

Path_png == <<"/", "a", ".", "p", "n", "g">>
Path_mp4 == <<"/", "v", ".", "m", "p", "4">>
Path_css == <<"/", "a", ".", "c", "s", "s">>
Path_root == <<"/">>

Config(secret, video) ==
    [ SecretKey |-> secret, EnableVideoThumbnail |-> video,
      Presets |-> <<>>, DefaultImagePath |-> <<>>,
      RateLimit |-> 0,     \* 0: no limiter is built
      MaxImageSizeMB |-> 0,    \* 0: no cap on the origin object's size
      AllowedCIDRNets |-> {},  \* each net is the set of the IPs it contains
      AllowedDomains |-> <<>>,
      AllowedCountries |-> {},
      CacheTTL |-> 24 ]    \* CACHE_TTL_HOURS

Secret_k == <<"k">>
Secret_j == <<"j">>

CfgOpen == Config(<<>>, FALSE)
CfgVideo == Config(<<>>, TRUE)
CfgSigned == Config(Secret_k, FALSE)

\* Queries, as the list of their name=value pairs.
Query_w == << <<Str_w, <<"1">>>> >>
Query_expires(v) == << <<Str_expires, v>>, <<Str_w, <<"1">>>> >>

\* The signer of the README: the hex HMAC-SHA-256 of the path, "?" and the
\* sorted name=value pairs joined by "&", appended as s.
Sign(path, query, secret) ==
    Hmac(secret, CanonicalString(path, ParseQuery(query)))

WithSignature(query, sig) == Append(query, <<Str_s, sig>>)

Signed(method, path, query, secret, now) ==
    Request(method, path, WithSignature(query, Sign(path, query, secret)),
            <<>>, <<>>, FALSE, now)

\* One processed variant, fetched and purged without signatures.
ResizeRequests ==
    { Request(m, Path_png, Query_w, <<>>, <<>>, FALSE, 0) :
        m \in {"GET", "DELETE"} }

\* A GET of a variant and the DELETE of the same URL with the same headers.
Pair(path, query, accept, acceptEncoding) ==
    { Request(m, path, query, accept, acceptEncoding, FALSE, 0) :
        m \in {"GET", "DELETE"} }

\* The variants a GET can create, each with the configuration it needs: an
\* explicit resize, a format negotiated from Accept, a video thumbnail, a
\* passthrough stored under br.
PurgeScenarios ==
    { [cfg |-> CfgOpen,  requests |-> Pair(Path_png, Query_w, <<>>, <<>>)],
      [cfg |-> CfgOpen,  requests |-> Pair(Path_png, Query_w, Str_imageWebp, <<>>)],
      [cfg |-> CfgVideo, requests |-> Pair(Path_mp4, <<>>, <<>>, <<>>)],
      [cfg |-> CfgOpen,  requests |-> Pair(Path_css, <<>>, <<>>, Str_br)] }

\* Requests to a process with the secret Secret_k: signed ones, and ones
\* whose signature is missing, made with another secret, or expired.
SignedRequests ==
    { Signed("GET", Path_png, Query_w, Secret_k, 0),
      Signed("DELETE", Path_png, Query_w, Secret_k, 0),
      Request("DELETE", Path_png, <<>>, <<>>, <<>>, FALSE, 0),
      Request("DELETE", Path_png, Query_w, <<>>, <<>>, FALSE, 0),
      Request("GET", Path_png, Query_w, <<>>, <<>>, FALSE, 0),
      Request("GET", Path_root, Query_w, <<>>, <<>>, FALSE, 0),
      Signed("GET", Path_png, Query_w, Secret_j, 0),
      Signed("GET", Path_png, Query_expires(<<"5">>), Secret_k, 6) }

\* Signed requests that carry expires: a time after, at and before the
\* time of the request.
ExpiryRequests ==
    { Signed("DELETE", Path_png, Query_expires(<<"5">>), Secret_k, 4),
      Signed("GET", Path_png, Query_expires(<<"5">>), Secret_k, 5),
      Signed("GET", Path_png, Query_expires(<<"5">>), Secret_k, 6) }

\* Signed requests whose expires is no number, or empty.
MalformedExpiryRequests ==
    { Signed("GET", Path_png, Query_expires(<<"x">>), Secret_k, 4),
      Signed("GET", Path_png, Query_expires(<<>>), Secret_k, 6) }

ExpiryScenarios ==
    { [cfg |-> CfgSigned, requests |-> ExpiryRequests],
      [cfg |-> CfgSigned, requests |-> MalformedExpiryRequests] }

\* The blurhash string of an image, fetched and purged.
Query_blurhash == << <<Str_blurhash, Str_true>> >>

BlurhashRequests == Pair(Path_png, Query_blurhash, <<>>, <<>>)

Scenarios ==
    PurgeScenarios
    \cup { [cfg |-> CfgOpen, requests |-> ResizeRequests],
           [cfg |-> CfgOpen, requests |-> BlurhashRequests],
           [cfg |-> CfgSigned, requests |-> SignedRequests] }
    \cup ExpiryScenarios

\* A guard that lets a request without s through.
SignatureRefusesMismatchOnly(d, c) ==
    LET params == ParseQuery(d.query)
    IN  /\ c.SecretKey # <<>>
        /\ Get(params, Str_s) # <<>>
        /\ ~validateSignature(d.path, params, c.SecretKey, d.now)

\* The signature guard of HandleRequest: true when the request is answered
\* 403.
SignatureRefuses(d, c) ==
    LET params == ParseQuery(d.query)
    IN  /\ c.SecretKey # <<>>
        /\ DOMAIN params # {}
        /\ \/ Get(params, Str_s) = <<>>
           \/ ~validateSignature(d.path, params, c.SecretKey, d.now)

\* The GETs of U that get past the path check and the signature guard.
Servable(U, c) ==
    { d \in U : /\ d.method = "GET"
                /\ ~InvalidPath(ObjectKey(d.path))
                /\ ~SignatureRefuses(d, c) }

\* The cache keys the requests of U can be served or purged under.
KeysOf(U, c) ==
    UNION { { RequestCacheKey(d, c), PurgeCacheKey(d, c) } : d \in U }

\* The cache keys of the model.
Keys == UNION { KeysOf(sc.requests, sc.cfg) : sc \in Scenarios }

(***************************************************************************)
(* State.                                                                  *)
(***************************************************************************)
Handlers == 1..MaxRequests

\* The goroutine a stale hit of handler r starts.
Bg(r) == MaxRequests + r

Goroutines == 1..(2 * MaxRequests)

IsBg(g) == g > MaxRequests

\* The handler whose request goroutine g works for.
Owner(g) == IF IsBg(g) THEN g - MaxRequests ELSE g

VARIABLES
    cfg,        \* the configuration snapshot
    inputs,     \* the requests that may arrive in this behaviour
    seeded,     \* seeded[k]: the path of k held an entry at start-up
    rq,         \* rq[r]: the request handler r is serving
    pc,         \* pc[g]: where goroutine g stands
    key,        \* key[r]: the cache key derived for the request of r
    status,     \* status[r]: the response status, 0 while unanswered
    doErr,      \* doErr[r]: the err Group.Do returned to r, "nil" when none
    body,       \* body[r]: the payload read for the response
    ctype,      \* ctype[r]: the Content-Type header of the response
    probe,      \* probe[r]: what the disk probe of the request saw
    origin,     \* origin[g]: how the origin answered the fetch of g
    dest,       \* dest[k]: the file at the cache path of key k
    temp,       \* temp[g]: the temporary file of the AtomicWrite call of g
    mem,        \* mem[k]: the memory tier, <<>> when absent
    memExpires, \* memExpires[k]: the memory-tier entry of k has an expiry
    remote,     \* remote[k]: the remote tier, <<>> when absent
    flight,     \* flight[k]: the goroutine running the singleflight call, or 0
    cleaner,    \* the keys whose file the cleaner has found expired
    started,    \* requests received so far
    fetches,    \* fetches[k]: origin GetObject calls made for key k
    touched,    \* touched[r]: what the request of r has accessed so far
    committed,  \* committed[k]: a commit to the path of k has succeeded
    unlinked,   \* unlinked[k]: purge or the cleaner has removed the path
    aged,       \* aged[k]: the entry of k has crossed a TTL
    failed,     \* failed[k]: a producer of k has ended with an error
    faults,     \* cancelled requests, aborted producers, the remote tier's health
    verified,   \* the last signature verification made outside a request
    derived,    \* the last pair of requests whose cache keys were derived
    clock,      \* the time, in ticks
    limiters,   \* limiters[ip]: the token bucket the local limiter holds for ip
    calls,      \* the Allow calls made so far, with their outcomes
    zsets,      \* zsets[ip]: the sorted set the shared limiter keeps for ip
    callers,    \* callers[c]: where caller c of RedisLimiter.Allow stands
    verdicts,   \* the RedisLimiter.Allow calls that have returned
    s3call,     \* the last S3Client.GetObject call, with what it returned
    parsed,     \* the last pair of queries given to parseImageOptions
    guarded,    \* the last request taken through the guards of HandleRequest
    snap,       \* the configuration reads of the request in flight under reloads
    ortState,   \* the inference session of the process and the Detect calls
    wm,         \* the watermark file, its Manager and the Get calls
    transformed, \* the last pair of Process calls made on one input image
    aw,         \* an AtomicWrite call on its own, with the faults it may meet
    crop,       \* the last crop window computed for a detected face
    sweep,      \* the cleaner of one process, its TTLs and its cache directory
    handoff     \* the last origin object a handler has fetched for a transform

\* What no step of a request changes.
limiterVars == << clock, limiters, calls >>

redisVars == << zsets, callers, verdicts >>

\* The components modelled further down.
later == << crop, sweep, handoff >>

extras == << parsed, guarded, snap, ortState, wm, transformed, aw, later >>

env == << cfg, inputs, seeded, verified, derived, limiterVars, redisVars,
         s3call, extras >>

\* What the steps of those components leave alone.
others == << cfg, inputs, seeded, verified, derived, limiterVars, redisVars,
            s3call >>

NoVerification ==
    [ done |-> FALSE, signed |-> <<>>, secret |-> <<>>, presented |-> <<>>,
      with |-> <<>>, accepted |-> FALSE ]

IPs == {"a", "b"}

NoLimiter == [present |-> FALSE, tokens |-> 0, last |-> 0]

NoZset == [scores |-> {}, expireAt |-> 0]

MaxCallers == 3

Callers == 1..MaxCallers

NoCall == [at |-> "idle", ip |-> "a", now |-> 0]

\* What a bucket answers: an object, or an error with its API error code
\* ("" when it is not an API error) and the status of its HTTP response (0
\* when it carries no response).
Object(bucket, length) ==
    [ ok |-> TRUE, from |-> bucket, code |-> "", status |-> 0,
      length |-> length ]      \* length -1: ContentLength is nil

Failure(bucket, code, st) ==
    [ ok |-> FALSE, from |-> bucket, code |-> code, status |-> st,
      length |-> -1 ]

NoError == [ok |-> TRUE, from |-> "", code |-> "", status |-> 0, length |-> -1]

NoS3Call ==
    [ done |-> FALSE, backupBucket |-> FALSE, primary |-> NoError,
      backup |-> NoError, contacted |-> FALSE, body |-> "", size |-> 0,
      err |-> NoError ]

NoGuard ==
    [ done |-> FALSE, peer |-> "a", referer |-> <<>>, origin |-> <<>>,
      country |-> <<>>, path |-> <<>>, status |-> 0, stage |-> "pass",
      asked |-> FALSE ]

\* No configuration has been read.
NoConfig == [none |-> TRUE]

NoSnap ==
    [ at |-> "idle", kind |-> "purge", taken |-> NoConfig,
      update |-> NoConfig, size |-> NoConfig, purge |-> NoConfig,
      palette |-> NoConfig ]

MaxDetectors == 3

Detectors == 1..MaxDetectors

\* ortOnce has not run, no session, no Detect call.
NoOrt ==
    [ ortOnce |-> "fresh", ortSession |-> FALSE, ortError |-> FALSE,
      created |-> 0, at |-> [d \in Detectors |-> "idle"] ]

MaxGetters == 2
MaxModTime == 3

Getters == 1..MaxGetters

\* NewManager: no image, the zero time; the watermark file exists; no Get
\* call is running.
NoWatermark ==
    [ modTime |-> 1, lastModTime |-> 0, currentImg |-> 0, writer |-> 0,
      at |-> [g \in Getters |-> "idle"],
      info |-> [g \in Getters |-> 0],
      got |-> [g \in Getters |-> 0],
      loads |-> [t \in 1..MaxModTime |-> 0] ]

NoProcess ==
    [ done |-> FALSE, opts |-> <<>>, wmA |-> <<>>, wmB |-> <<>>,
      textA |-> <<>>, textB |-> <<>>, outA |-> <<>>, outB |-> <<>> ]

\* No call yet; the destination path holds no file and the cache
\* directory no temporary file.
NoAtomicWrite ==
    [ at |-> "idle", reader |-> <<>>, encodingType |-> "identity",
      before |-> <<>>, dest |-> <<>>,
      tempExists |-> FALSE, temp |-> <<>>, failed |-> FALSE ]

\* No crop window has been computed.
NoCrop ==
    [ done |-> FALSE, cols |-> 1, rows |-> 1, faceX |-> 0, faceY |-> 0,
      Width |-> 0, Height |-> 0, cropW |-> 0, cropH |-> 0, x0 |-> 0,
      y0 |-> 0 ]

NoSweep == [ at |-> "boot" ]

\* No object has been fetched for a transform.
NoHandoff ==
    [ done |-> FALSE, transform |-> "Process", actual |-> 0, reported |-> 0,
      handed |-> FALSE, err |-> "nil" ]

NoParse ==
    [ done |-> FALSE, presets |-> <<>>, a |-> <<>>, b |-> <<>>,
      oa |-> <<>>, ob |-> <<>> ]

NoDerivation ==
    [ done |-> FALSE, a |-> <<>>, b |-> <<>>, ka |-> <<>>, kb |-> <<>> ]

\* What the steps of a request read and write.
pipeline == << rq, pc, key, status, doErr, body, ctype, probe, origin, dest, temp, mem,
               memExpires, remote, flight, cleaner, started, fetches, touched, committed,
               unlinked, aged, failed, faults >>

vars == << env, pipeline >>

\* Every request context is live, no producer has been aborted, the remote
\* tier answers.
NoFaults ==
    [ cancelled |-> [r \in Handlers |-> "no"], aborted |-> {},
      remoteUp |-> TRUE ]

NoFile == [exists |-> FALSE, content |-> <<>>, age |-> "fresh"]

\* The payload goroutine g produces, written in two writes.  Writer 0 is an
\* earlier run of the process.
Payload(g) == << g, g >>

Writers == {0} \cup Goroutines

NoRequest == Request("GET", <<>>, <<>>, <<>>, <<>>, FALSE, 0)

\* The process starts with configuration c, and serves the requests of U.
\* The cache directory outlives the process: at start-up it is empty, or it
\* holds an entry, fresh or stale, that an earlier run has committed.  The
\* memory tier starts empty.  The remote tier is a server of its own: for
\* warm in W it holds an entry an earlier run has set, otherwise it is empty.
Start(c, U, W) ==
    /\ cfg = c
    /\ inputs = U
    /\ \E old \in SUBSET { RequestCacheKey(d, c) : d \in Servable(U, c) } :
       \E a \in {"fresh", "stale"} :
         /\ Cardinality(old) <= 1
         /\ seeded = [k \in Keys |-> k \in old]
         /\ dest = [k \in Keys |->
                      IF k \in old
                      THEN [exists |-> TRUE, content |-> Payload(0), age |-> a]
                      ELSE NoFile]
         /\ committed = [k \in Keys |-> k \in old]
    /\ rq = [r \in Handlers |-> NoRequest]
    /\ pc = [g \in Goroutines |-> "idle"]
    /\ key = [r \in Handlers |-> <<>>]
    /\ status = [r \in Handlers |-> 0]
    /\ doErr = [r \in Handlers |-> "nil"]
    /\ body = [r \in Handlers |-> <<>>]
    /\ ctype = [r \in Handlers |-> ""]
    /\ probe = [r \in Handlers |-> "none"]
    /\ origin = [g \in Goroutines |-> "ok"]
    /\ temp = [g \in Goroutines |-> NoFile]
    /\ mem = [k \in Keys |-> <<>>]
    /\ memExpires = [k \in Keys |-> FALSE]
    /\ \E warm \in W :
       \E hot \in SUBSET { RequestCacheKey(d, c) : d \in Servable(U, c) } :
         /\ Cardinality(hot) <= 1
         /\ warm = (hot # {})
         /\ remote = [k \in Keys |-> IF k \in hot THEN Payload(0) ELSE <<>>]
    /\ flight = [k \in Keys |-> 0]
    /\ cleaner = {}
    /\ started = 0
    /\ fetches = [k \in Keys |-> 0]
    /\ touched = [r \in Handlers |-> {}]
    /\ unlinked = [k \in Keys |-> FALSE]
    /\ aged = [k \in Keys |-> FALSE]
    /\ failed = [k \in Keys |-> FALSE]
    /\ faults = NoFaults
    /\ verified = NoVerification
    /\ derived = NoDerivation
    /\ clock = 0
    /\ limiters = [ip \in IPs |-> NoLimiter]
    /\ calls = <<>>
    /\ zsets = [ip \in IPs |-> NoZset]
    /\ callers = [n \in Callers |-> NoCall]
    /\ verdicts = <<>>
    /\ s3call = NoS3Call
    /\ parsed = NoParse
    /\ guarded = NoGuard
    /\ snap = NoSnap
    /\ ortState = NoOrt
    /\ wm = NoWatermark
    /\ transformed = NoProcess
    /\ aw = NoAtomicWrite
    /\ crop = NoCrop
    /\ sweep = NoSweep
    /\ handoff = NoHandoff

\* A start with an empty remote tier.
Init(c, U) == Start(c, U, {FALSE})

(***************************************************************************)
(* HandleRequest up to the cache probe.                                    *)
(***************************************************************************)
\* setContentType, and the same lines of serveFile: the type by the forced
\* format, or else by the extension of the object key.
setContentType(objectKey, forcedFormat) ==
    LET ext == ToLower(IF forcedFormat # <<>> THEN <<".">> \o forcedFormat
                       ELSE Ext(objectKey))
    IN  CASE ext \in {<<".", "j", "p", "g">>, <<".", "j", "p", "e", "g">>}
               -> "image/jpeg"
          [] ext = <<".", "p", "n", "g">> -> "image/png"
          [] ext = <<".", "g", "i", "f">> -> "image/gif"
          [] ext = <<".", "w", "e", "b", "p">> -> "image/webp"
          [] ext = <<".", "a", "v", "i", "f">> -> "image/avif"
          [] ext = <<".", "c", "s", "s">> -> "text/css"
          [] ext = <<".", "j", "s">> -> "application/javascript"
          [] ext = <<".", "s", "v", "g">> -> "image/svg+xml"
          [] OTHER -> "application/octet-stream"

\* HandleRequest: the Content-Type of a response served from the tiers.
HitContentType(d, c) ==
    LET opts == NegotiatedOptions(ObjectKey(d.path), ParseQuery(d.query),
                                  d.accept, c)
    IN  IF opts.Blurhash THEN "text/plain"
        ELSE setContentType(ObjectKey(d.path), opts.Format)

\* serveFile called with imgOpts.Format: the Content-Type of a response
\* served from the cache file.
FileContentType(d, c) ==
    setContentType(ObjectKey(d.path),
                   NegotiatedOptions(ObjectKey(d.path), ParseQuery(d.query),
                                     d.accept, c).Format)

\* A handler that takes every variant for a processed one.
IsProcessedAlways(d, c) == TRUE

\* Whether the variant of request d is produced by the transform engine.
IsProcessed(d, c) ==
    ShouldProcess(ObjectKey(d.path),
                  NegotiatedOptions(ObjectKey(d.path), ParseQuery(d.query),
                                    d.accept, c), c)

\* The status and the next step of a request after the path check, the
\* signature guard, the DELETE dispatch and the ETag check.
Dispatch(d, c) ==
    IF InvalidPath(ObjectKey(d.path))
    THEN [status |-> 400, pc |-> "done", key |-> <<>>]
    ELSE IF SignatureRefuses(d, c)
    THEN [status |-> 403, pc |-> "done", key |-> <<>>]
    ELSE IF d.method = "DELETE"
    THEN [status |-> 0, pc |-> "purge_l1", key |-> PurgeCacheKey(d, c)]
    ELSE IF d.inm
    THEN [status |-> 304, pc |-> "done", key |-> RequestCacheKey(d, c)]
    ELSE [status |-> 0, pc |-> "cache_l1", key |-> RequestCacheKey(d, c)]

\* A request arrives and runs to its first access of shared state.  The
\* handlers are interchangeable: requests take them in order.
Receive(r) ==
    /\ pc[r] = "idle"
    /\ started = r - 1
    /\ \E d \in inputs :
         LET n == Dispatch(d, cfg)
         IN  /\ rq' = [rq EXCEPT ![r] = d]
             /\ UNCHANGED doErr
             /\ status' = [status EXCEPT ![r] = n.status]
             /\ pc' = [pc EXCEPT ![r] = n.pc]
             /\ key' = [key EXCEPT ![r] = n.key]
    /\ started' = started + 1
    /\ body' = [body EXCEPT ![r] = <<>>]
    /\ probe' = [probe EXCEPT ![r] = "none"]
    /\ touched' = [touched EXCEPT ![r] = {}]
    /\ UNCHANGED << env, faults, ctype, memExpires, origin, dest, temp, mem, remote, flight, cleaner,
                    fetches, committed, unlinked, aged, failed >>

(***************************************************************************)
(* Contexts and the health of the remote tier.                             *)
(***************************************************************************)
\* A revalidation that runs with the context of the request that started
\* it.
UpdateContextOfRequest(g) == Owner(g)

\* The context updateCache is called with: r.Context() of the handler for
\* a miss, context.Background(), written 0, for a revalidation.
UpdateContext(g) == IF IsBg(g) THEN 0 ELSE Owner(g)

\* ctx.Err() != nil: the client of the request has gone, or its handler
\* has returned.
CtxDone(x) == x # 0 /\ (faults.cancelled[x] # "no" \/ pc[x] = "done")

\* The remote tier answers a call made with context x.
RemoteAnswers(x) == faults.remoteUp /\ ~CtxDone(x)

\* What a handler has accessed, with the failure of the remote tier it met.
Met(r, ok) ==
    IF ok THEN touched ELSE [touched EXCEPT ![r] = @ \cup {"tier_error"}]

(***************************************************************************)
(* TieredCache.Get: memory, then remote with back-population of memory.    *)
(***************************************************************************)
\* MemoryCache.Set: SetWithTTL gives the entry an expiry when ttl is
\* positive; with ttl 0 the entry does not expire.
HasExpiry(ttl) == ttl > 0

CacheGetL1(r) ==
    /\ pc[r] = "cache_l1"
    /\ touched' = [touched EXCEPT ![r] = @ \cup {"tier"}]
    /\ IF mem[key[r]] # <<>>
       THEN /\ body' = [body EXCEPT ![r] = mem[key[r]]]
            /\ ctype' = [ctype EXCEPT ![r] = HitContentType(rq[r], cfg)]
            /\ UNCHANGED doErr
            /\ status' = [status EXCEPT ![r] = 200]
            /\ pc' = [pc EXCEPT ![r] = "done"]
       ELSE /\ pc' = [pc EXCEPT ![r] = "cache_l2"]
            /\ UNCHANGED << body, ctype, status, doErr >>
    /\ UNCHANGED << env, faults, memExpires, rq, key, probe, origin, dest, temp, mem, remote,
                    flight, cleaner, started, fetches, committed, unlinked,
                    aged, failed >>

CacheGetL2(r) ==
    /\ pc[r] = "cache_l2"
    /\ touched' = Met(r, faults.remoteUp)
    /\ IF RemoteAnswers(r) /\ remote[key[r]] # <<>>
       THEN /\ body' = [body EXCEPT ![r] = remote[key[r]]]
            /\ pc' = [pc EXCEPT ![r] = "cache_fill"]
       ELSE /\ pc' = [pc EXCEPT ![r] = "stat"]
            /\ UNCHANGED body
    /\ UNCHANGED << env, faults, ctype, memExpires, rq, key, status, doErr, probe, origin, dest, temp, mem,
                    remote, flight, cleaner, started, fetches,
                    committed, unlinked, aged, failed >>

CacheFill(r) ==
    /\ pc[r] = "cache_fill"
    /\ mem' = [mem EXCEPT ![key[r]] = body[r]]
    /\ memExpires' = [memExpires EXCEPT ![key[r]] = HasExpiry(0)]
    /\ ctype' = [ctype EXCEPT ![r] = HitContentType(rq[r], cfg)]
    /\ UNCHANGED doErr
    /\ status' = [status EXCEPT ![r] = 200]
    /\ pc' = [pc EXCEPT ![r] = "done"]
    /\ UNCHANGED << env, faults, rq, key, body, probe, origin, dest, temp, remote,
                    flight, cleaner, started, fetches, touched, committed,
                    unlinked, aged, failed >>

(***************************************************************************)
(* The disk probe and serveFile.                                           *)
(***************************************************************************)
\* os.Stat of the cache path; a stale entry starts the background
\* revalidation before it is served.
Stat(r) ==
    /\ pc[r] = "stat"
    /\ touched' = [touched EXCEPT ![r] = @ \cup {"disk"}]
    /\ IF dest[key[r]].exists
       THEN IF dest[key[r]].age # "fresh"
            THEN /\ probe' = [probe EXCEPT ![r] = "stale"]
                 /\ pc' = [pc EXCEPT ![r] = "open", ![Bg(r)] = "do"]
            ELSE /\ probe' = [probe EXCEPT ![r] = "fresh"]
                 /\ pc' = [pc EXCEPT ![r] = "open"]
       ELSE /\ probe' = [probe EXCEPT ![r] = "absent"]
            /\ pc' = [pc EXCEPT ![r] = "do"]
    /\ UNCHANGED << env, faults, ctype, memExpires, rq, key, status, doErr, body, origin, dest, temp, mem,
                    remote, flight, cleaner, started, fetches, committed,
                    unlinked, aged, failed >>

\* serveFile: os.Open, 500 when the path is absent.
Open(r) ==
    /\ pc[r] = "open"
    /\ IF dest[key[r]].exists
       THEN /\ body' = [body EXCEPT ![r] = dest[key[r]].content]
            /\ pc' = [pc EXCEPT ![r] = "serve"]
            /\ UNCHANGED status
       ELSE /\ status' = [status EXCEPT ![r] = 500]
            /\ pc' = [pc EXCEPT ![r] = "done"]
            /\ UNCHANGED body
    /\ UNCHANGED << env, faults, doErr, ctype, memExpires, rq, key, probe, origin, dest, temp, mem, remote,
                    flight, cleaner, started, fetches, touched, committed,
                    unlinked, aged, failed >>

\* os.Chtimes on a path: the file there, if any, becomes fresh.
Chtimes(files, k) ==
    IF files[k].exists THEN [files EXCEPT ![k].age = "fresh"] ELSE files

\* serveFile: os.Chtimes of the path, then the opened file is sent.
Serve(r) ==
    /\ pc[r] = "serve"
    /\ dest' = Chtimes(dest, key[r])
    /\ ctype' = [ctype EXCEPT ![r] = FileContentType(rq[r], cfg)]
    /\ UNCHANGED doErr
    /\ status' = [status EXCEPT ![r] = 200]
    /\ pc' = [pc EXCEPT ![r] = "done"]
    /\ UNCHANGED << env, faults, memExpires, rq, key, body, probe, origin, temp, mem, remote,
                    flight, cleaner, started, fetches, touched, committed,
                    unlinked, aged, failed >>

(***************************************************************************)
(* The request coalescer (singleflight.Group.Do) and the producers.        *)
(***************************************************************************)
\* The key goroutine g works on.
KeyOf(g) == key[Owner(g)]

\* strconv's decimal form of a natural number.
RECURSIVE Itoa(_)
Itoa(n) == IF n < 10 THEN << Digits[n + 1] >>
           ELSE Itoa(n \div 10) \o << Digits[(n % 10) + 1] >>

Text_NotFound == <<"N", "o", "t", "F", "o", "u", "n", "d">>
Text_404 == <<"4", "0", "4">>
Text_NoSuchKey == <<"N", "o", "S", "u", "c", "h", "K", "e", "y">>
Text_EOF == <<"E", "O", "F">>
Text_fileSize == <<"f", "i", "l", "e", " ", "s", "i", "z", "e", " ",
                   "e", "x", "c", "e", "e", "d", "s", " ",
                   "l", "i", "m", "i", "t", " ", "o", "f", " ">>
Text_MB == <<" ", "M", "B">>
Text_canceled == <<"c", "o", "n", "t", "e", "x", "t", " ",
                   "c", "a", "n", "c", "e", "l", "e", "d">>

\* FileSizeError.Error()
FileSizeError(maxSizeMB) == Text_fileSize \o Itoa(maxSizeMB) \o Text_MB

\* err.Error() of what the producer returns: the origin's not-found error
\* names its code and the status of its response, a size violation is a
\* FileSizeError made from the configured cap, any other failure carries
\* the text of the failed read, a call made with a context that is done
\* the text of context.Canceled.
ErrorText(e, c) ==
    CASE e = "NotFound" -> Text_NoSuchKey \o Text_404
      [] e = "FileSize" -> FileSizeError(c.MaxImageSizeMB)
      [] e = "canceled" -> Text_canceled
      [] OTHER -> Text_EOF

\* HandleRequest after Group.Do: the status answered for a producer error,
\* chosen by what the text of the error contains.
ErrorStatus(e, c) ==
    LET text == ErrorText(e, c)
    IN  IF /\ c.DefaultImagePath # <<>>
           /\ \/ Contains(text, Text_NotFound)
              \/ Contains(text, Text_404)
              \/ Contains(text, Text_NoSuchKey)
        THEN 200
        ELSE IF Contains(text, Text_NotFound) \/ Contains(text, Text_404)
        THEN 404
        ELSE 500

\* The call led by g for key k returns e: the pending record is cleared and
\* the leader and every caller waiting on it get the same result.  A handler
\* maps an error to its response, or goes on to serveFile; a background
\* revalidation drops the result.
Finish(g, k, e) ==
    LET woken == {x \in Goroutines :
                     x = g \/ (pc[x] = "wait" /\ KeyOf(x) = k)}
    IN  /\ flight' = [flight EXCEPT ![k] = 0]
        /\ pc' = [x \in Goroutines |->
                    IF x \notin woken THEN pc[x]
                    ELSE IF IsBg(x) THEN "idle"
                    ELSE IF e = "nil" THEN "open" ELSE "done"]
        /\ status' = [r \in Handlers |->
                        IF r \in woken /\ e # "nil"
                        THEN ErrorStatus(e, cfg) ELSE status[r]]
        /\ doErr' = [r \in Handlers |->
                     IF r \in woken /\ e # "nil" THEN e ELSE doErr[r]]
        /\ failed' = [failed EXCEPT ![k] = @ \/ e # "nil"]

\* A coalescer that never finds a call in progress.
InFlightNever(k) == FALSE

\* Group.Do: whether a call for the key is in progress.
InFlight(k) == flight[k] # 0

\* Group.Do: join the call in progress, or become the one that runs the
\* producer.  The foreground producer starts with the double check, the
\* background one with updateCache.
Do(g) ==
    /\ pc[g] = "do"
    /\ touched' = [touched EXCEPT ![Owner(g)] = @ \cup {"coalescer"}]
    /\ IF InFlight(KeyOf(g))
       THEN /\ pc' = [pc EXCEPT ![g] = "wait"]
            /\ UNCHANGED flight
       ELSE /\ flight' = [flight EXCEPT ![KeyOf(g)] = g]
            /\ pc' = [pc EXCEPT ![g] =
                         IF IsBg(g) THEN "fetch" ELSE "doublecheck"]
    /\ UNCHANGED << env, faults, ctype, memExpires, rq, key, status, doErr, body, probe, origin, dest, temp,
                    mem, remote, cleaner, started, fetches, committed,
                    unlinked, aged, failed >>

\* A foreground producer without the double check.
AppearedNever(k) == FALSE

\* The double check inside the foreground producer: storage.FileExists.
AppearedWhileWaiting(k) == dest[k].exists

DoubleCheck(g) ==
    /\ pc[g] = "doublecheck"
    /\ touched' = [touched EXCEPT ![Owner(g)] = @ \cup {"disk"}]
    /\ IF AppearedWhileWaiting(KeyOf(g))
       THEN /\ Finish(g, KeyOf(g), "nil")
            /\ probe' = [probe EXCEPT ![Owner(g)] = "appeared"]
       ELSE /\ pc' = [pc EXCEPT ![g] = "fetch"]
            /\ UNCHANGED << status, doErr, flight, failed, probe >>
    /\ UNCHANGED << env, faults, ctype, memExpires, rq, key, body, origin, dest, temp, mem, remote,
                    cleaner, started, fetches, committed, unlinked, aged >>

\* The producers that have returned the error of a context that was done.
Aborted(g, e) ==
    IF e = "canceled" THEN [faults EXCEPT !.aborted = @ \cup {g}] ELSE faults

\* How the origin may answer a GetObject: the object, a typed not-found,
\* another error, or a body whose stream breaks while it is read.
OriginOutcomes == {"ok", "NotFound", "error", "truncated"}

MiB == 1024 * 1024

\* The sizes, in bytes, GetObject may report for the object.
ObjectSizes == {1, 405 * MiB}

\* processAndSave: the object is larger than the configured cap.
TooLarge(size, c) ==
    c.MaxImageSizeMB > 0 /\ size > c.MaxImageSizeMB * MiB

\* updateCache up to the first write of the commit: GetObject, for a
\* processed variant the size check and the transform, which reads the whole body, and
\* os.CreateTemp of AtomicWrite.  A passthrough body is streamed into
\* AtomicWrite.
Fetch(g) ==
    /\ pc[g] = "fetch"
    /\ touched' = [touched EXCEPT ![Owner(g)] = @ \cup {"origin"}]
    /\ fetches' = [fetches EXCEPT ![KeyOf(g)] = @ + 1]
    /\ \E o \in OriginOutcomes, size \in ObjectSizes :
         LET processed == IsProcessed(rq[Owner(g)], cfg)
             sized == /\ processed
                      /\ ~ /\ isVideoFile(ObjectKey(rq[Owner(g)].path))
                           /\ cfg.EnableVideoThumbnail
             e == IF CtxDone(UpdateContext(g)) THEN "canceled"
                  ELSE IF o \in {"NotFound", "error"} THEN o
                  ELSE IF sized /\ TooLarge(size, cfg) THEN "FileSize"
                  ELSE IF o = "truncated" /\ processed THEN "error"
                  ELSE "nil"
         IN  IF e # "nil"
             THEN /\ Finish(g, KeyOf(g), e)
                  /\ faults' = Aborted(g, e)
                  /\ UNCHANGED << origin, temp >>
             ELSE /\ origin' = [origin EXCEPT ![g] = o]
                  /\ UNCHANGED faults
                  /\ temp' = [temp EXCEPT ![g] =
                        [exists |-> TRUE, content |-> <<>>, age |-> "fresh"]]
                  /\ pc' = [pc EXCEPT ![g] = "aw_copy"]
                  /\ UNCHANGED << status, doErr, flight, failed >>
    /\ UNCHANGED << env, ctype, memExpires, rq, key, body, probe, dest, mem, remote, cleaner,
                    started, committed, unlinked, aged >>

(***************************************************************************)
(* storage.AtomicWrite, one file-system call per step.                     *)
(***************************************************************************)
\* A copy that stops after its first write.
CopyDoneAfterOneWrite(g, content) == Len(content) >= 1

\* io.Copy returns once the reader is at its end.
CopyDone(g, content) == Len(content) = Len(Payload(g))

\* The reader of g fails once a part of the body has been written.
ReaderFails(g) == origin[g] = "truncated" /\ Len(temp[g].content) >= 1

\* The body of a passthrough object is read from the origin while it is
\* copied: the read fails once the context of the fetch is done.
ReaderCancelled(g) ==
    ~IsProcessed(rq[Owner(g)], cfg) /\ CtxDone(UpdateContext(g))

\* io.Copy into the temporary file, one write per step.  A failing reader
\* ends the call: the deferred cleanup removes the temporary file.
AwCopy(g) ==
    /\ pc[g] = "aw_copy"
    /\ IF ReaderFails(g) \/ ReaderCancelled(g)
       THEN /\ temp' = [temp EXCEPT ![g] = NoFile]
            /\ Finish(g, KeyOf(g),
                      IF ReaderCancelled(g) THEN "canceled" ELSE "error")
            /\ faults' = Aborted(g, IF ReaderCancelled(g) THEN "canceled"
                                    ELSE "error")
       ELSE /\ temp' = [temp EXCEPT ![g].content = Append(@, g)]
            /\ UNCHANGED faults
            /\ pc' = [pc EXCEPT ![g] =
                         IF CopyDone(g, Append(temp[g].content, g))
                         THEN "aw_exists" ELSE "aw_copy"]
            /\ UNCHANGED << status, doErr, flight, failed >>
    /\ UNCHANGED << env, ctype, memExpires, rq, key, body, probe, origin, dest, mem, remote,
                    cleaner, started, fetches, touched, committed, unlinked,
                    aged >>

\* FileExists(destPath)
AwExists(g) ==
    /\ pc[g] = "aw_exists"
    /\ pc' = [pc EXCEPT ![g] =
                 IF dest[KeyOf(g)].exists THEN "aw_remove" ELSE "aw_rename"]
    /\ UNCHANGED << env, faults, ctype, memExpires, rq, key, status, doErr, body, probe, origin, dest, temp,
                    mem, remote, flight, cleaner, started, fetches, touched,
                    committed, unlinked, aged, failed >>

\* os.Remove(destPath)
AwRemove(g) ==
    /\ pc[g] = "aw_remove"
    /\ dest' = [dest EXCEPT ![KeyOf(g)] = NoFile]
    /\ pc' = [pc EXCEPT ![g] = "aw_rename"]
    /\ UNCHANGED << env, faults, ctype, memExpires, rq, key, status, doErr, body, probe, origin, temp, mem,
                    remote, flight, cleaner, started, fetches, touched,
                    committed, unlinked, aged, failed >>

\* os.Rename(tempName, destPath): the path changes from the old file, or
\* from no file, to the whole temporary file at once.
AwRename(g) ==
    /\ pc[g] = "aw_rename"
    /\ IF temp[g].exists
       THEN /\ dest' = [dest EXCEPT ![KeyOf(g)] = temp[g]]
            /\ temp' = [temp EXCEPT ![g] = NoFile]
            /\ committed' = [committed EXCEPT ![KeyOf(g)] = TRUE]
            /\ pc' = [pc EXCEPT ![g] = "aw_chtimes"]
            /\ UNCHANGED << status, doErr, flight, failed >>
       ELSE /\ Finish(g, KeyOf(g), "error")
            /\ UNCHANGED << dest, temp, committed >>
    /\ UNCHANGED << env, faults, ctype, memExpires, rq, key, body, probe, origin, mem, remote, cleaner,
                    started, fetches, touched, unlinked, aged >>

\* os.Chtimes(destPath), and the return of AtomicWrite.  A processed
\* payload goes on to the cache tiers; fetchAndSave is done.
AwChtimes(g) ==
    /\ pc[g] = "aw_chtimes"
    /\ dest' = Chtimes(dest, KeyOf(g))
    /\ IF IsProcessed(rq[Owner(g)], cfg)
       THEN /\ pc' = [pc EXCEPT ![g] = "set_l1"]
            /\ UNCHANGED << status, doErr, flight, failed >>
       ELSE Finish(g, KeyOf(g), "nil")
    /\ UNCHANGED << env, faults, ctype, memExpires, rq, key, body, probe, origin, temp, mem, remote,
                    cleaner, started, fetches, touched, committed, unlinked,
                    aged >>

(***************************************************************************)
(* TieredCache.Set after the commit of a processed payload.                *)
(***************************************************************************)
CacheSetL1(g) ==
    /\ pc[g] = "set_l1"
    /\ mem' = [mem EXCEPT ![KeyOf(g)] = Payload(g)]
    /\ memExpires' = [memExpires EXCEPT ![KeyOf(g)] = HasExpiry(cfg.CacheTTL)]
    /\ pc' = [pc EXCEPT ![g] = "set_l2"]
    /\ UNCHANGED << env, faults, ctype, rq, key, status, doErr, body, probe, origin, dest, temp,
                    remote, flight, cleaner, started, fetches, touched,
                    committed, unlinked, aged, failed >>

\* An updateCache that returns the error of Cache.Set.
SetErrorReturned(ok) == IF ok THEN "nil" ELSE "store"

\* updateCache drops what Cache.Set returns.
SetError(ok) == "nil"

CacheSetL2(g) ==
    /\ pc[g] = "set_l2"
    /\ remote' = IF RemoteAnswers(UpdateContext(g))
                 THEN [remote EXCEPT ![KeyOf(g)] = Payload(g)]
                 ELSE remote
    /\ touched' = Met(Owner(g), faults.remoteUp)
    /\ Finish(g, KeyOf(g), SetError(RemoteAnswers(UpdateContext(g))))
    /\ UNCHANGED << env, faults, ctype, memExpires, rq, key, body, probe, origin, dest, temp, mem,
                    cleaner, started, fetches, committed, unlinked,
                    aged >>

(***************************************************************************)
(* handlePurge: TieredCache.Delete, then os.Remove of the cache path.      *)
(***************************************************************************)
PurgeL1(r) ==
    /\ pc[r] = "purge_l1"
    /\ mem' = [mem EXCEPT ![key[r]] = <<>>]
    /\ memExpires' = [memExpires EXCEPT ![key[r]] = FALSE]
    /\ touched' = [touched EXCEPT ![r] = @ \cup {"tier"}]
    /\ pc' = [pc EXCEPT ![r] = "purge_l2"]
    /\ UNCHANGED << env, faults, ctype, rq, key, status, doErr, body, probe, origin, dest, temp,
                    remote, flight, cleaner, started, fetches, committed,
                    unlinked, aged, failed >>

PurgeL2(r) ==
    /\ pc[r] = "purge_l2"
    /\ remote' = IF RemoteAnswers(r)
                 THEN [remote EXCEPT ![key[r]] = <<>>] ELSE remote
    /\ pc' = [pc EXCEPT ![r] = "purge_disk"]
    /\ UNCHANGED << env, faults, ctype, memExpires, rq, key, status, doErr, body, probe, origin, dest, temp,
                    mem, flight, cleaner, started, fetches, touched,
                    committed, unlinked, aged, failed >>

PurgeDisk(r) ==
    /\ pc[r] = "purge_disk"
    /\ dest' = [dest EXCEPT ![key[r]] = NoFile]
    /\ unlinked' = [unlinked EXCEPT ![key[r]] = TRUE]
    /\ touched' = [touched EXCEPT ![r] = @ \cup {"disk"}]
    /\ UNCHANGED doErr
    /\ status' = [status EXCEPT ![r] = 200]
    /\ pc' = [pc EXCEPT ![r] = "done"]
    /\ UNCHANGED << env, faults, ctype, memExpires, rq, key, body, probe, origin, temp, mem, remote,
                    flight, cleaner, started, fetches, committed, aged,
                    failed >>

(***************************************************************************)
(* Time and the cleaner.                                                   *)
(***************************************************************************)
\* Time passes: an entry crosses the soft TTL, then the hard TTL.  A
\* temporary file is written and renamed well within the hard TTL.
Age(k) ==
    /\ dest[k].exists
    /\ dest[k].age # "expired"
    /\ dest' = [dest EXCEPT ![k].age =
                   IF @ = "fresh" THEN "stale" ELSE "expired"]
    /\ aged' = [aged EXCEPT ![k] = TRUE]
    /\ UNCHANGED << env, faults, ctype, memExpires, rq, pc, key, status, doErr, body, probe, origin, temp,
                    mem, remote, flight, cleaner, started, fetches, touched,
                    committed, unlinked, failed >>

\* The memory tier drops the entry of k.
DropMem(k) ==
    /\ mem' = [mem EXCEPT ![k] = <<>>]
    /\ memExpires' = [memExpires EXCEPT ![k] = FALSE]

\* The TTL of a memory-tier entry lapses.
ExpireMem(k) ==
    /\ mem[k] # <<>>
    /\ memExpires[k]
    /\ DropMem(k)
    /\ UNCHANGED << env, faults, ctype, rq, pc, key, status, doErr, body, probe, origin, dest,
                    temp, remote, flight, cleaner, started, fetches,
                    touched, committed, unlinked, aged, failed >>

\* The memory tier is over its capacity and evicts the entry.
EvictMem(k) ==
    /\ mem[k] # <<>>
    /\ DropMem(k)
    /\ UNCHANGED << env, faults, ctype, rq, pc, key, status, doErr, body, probe, origin, dest,
                    temp, remote, flight, cleaner, started, fetches,
                    touched, committed, unlinked, aged, failed >>

\* The TTL of a remote-tier entry lapses.
ExpireRemote(k) ==
    /\ remote[k] # <<>>
    /\ remote' = [remote EXCEPT ![k] = <<>>]
    /\ UNCHANGED << env, faults, ctype, memExpires, rq, pc, key, status, doErr, body, probe, origin, dest,
                    temp, mem, flight, cleaner, started, fetches, touched,
                    committed, unlinked, aged, failed >>

\* StartCleaner: d.Info() of a file older than the hard TTL.
CleanerInfo(k) ==
    /\ cleaner = {}
    /\ dest[k].exists
    /\ dest[k].age = "expired"
    /\ cleaner' = {k}
    /\ UNCHANGED << env, faults, ctype, memExpires, rq, pc, key, status, doErr, body, probe, origin, dest,
                    temp, mem, remote, flight, started, fetches, touched,
                    committed, unlinked, aged, failed >>

\* StartCleaner: os.Remove of the path found expired.
CleanerRemove(k) ==
    /\ k \in cleaner
    /\ cleaner' = {}
    /\ dest' = [dest EXCEPT ![k] = NoFile]
    /\ unlinked' = [unlinked EXCEPT ![k] = TRUE]
    /\ UNCHANGED << env, faults, ctype, memExpires, rq, pc, key, status, doErr, body, probe, origin, temp,
                    mem, remote, flight, started, fetches, touched,
                    committed, aged, failed >>

(***************************************************************************)
(* Faults: a client that goes away, a remote tier that stops answering.    *)
(***************************************************************************)
\* What the steps of a fault leave alone.
served == << rq, pc, key, status, doErr, body, ctype, probe, origin, dest,
             temp, mem, memExpires, remote, flight, cleaner, started,
             fetches, touched, committed, unlinked, aged, failed >>

\* Neither the handler r nor the revalidation it started has come to its
\* origin fetch, and one of them is on its way to it.
BeforeFetch(r) ==
    \/ pc[r] \in {"do", "wait", "doublecheck", "fetch"}
    \/ pc[Bg(r)] \in {"do", "wait", "fetch"}

\* The client of the request of r disconnects: the context of the request
\* is cancelled, the handler runs on.
Cancel(r) ==
    /\ pc[r] \notin {"idle", "done"}
    /\ faults.cancelled[r] = "no"
    /\ faults' = [faults EXCEPT !.cancelled[r] =
                     IF BeforeFetch(r) THEN "before_fetch" ELSE "other"]
    /\ UNCHANGED << env, served >>

\* The remote tier becomes unreachable, or reachable again.
Outage ==
    /\ faults' = [faults EXCEPT !.remoteUp = ~@]
    /\ UNCHANGED << env, served >>

(***************************************************************************)
(* The specification.                                                      *)
(***************************************************************************)
Next ==
    \/ \E r \in Handlers :
         \/ Receive(r)
         \/ CacheGetL1(r)
         \/ CacheGetL2(r)
         \/ CacheFill(r)
         \/ Stat(r)
         \/ Open(r)
         \/ Serve(r)
         \/ PurgeL1(r)
         \/ PurgeL2(r)
         \/ PurgeDisk(r)
    \/ \E g \in Goroutines :
         \/ Do(g)
         \/ DoubleCheck(g)
         \/ Fetch(g)
         \/ AwCopy(g)
         \/ AwExists(g)
         \/ AwRemove(g)
         \/ AwRename(g)
         \/ AwChtimes(g)
         \/ CacheSetL1(g)
         \/ CacheSetL2(g)
    \/ \E k \in Keys :
         \/ Age(k)
         \/ ExpireMem(k)
         \/ EvictMem(k)
         \/ ExpireRemote(k)
         \/ CleanerInfo(k)
         \/ CleanerRemove(k)

Spec == Init(CfgOpen, ResizeRequests) /\ [][Next]_vars

SpecBlurhash == Init(CfgOpen, BlurhashRequests) /\ [][Next]_vars

\* The same requests against a remote tier that holds the variant.
SpecWarm == Start(CfgOpen, ResizeRequests, {TRUE}) /\ [][Next]_vars

\* Requests whose clients may go away, while no TTL lapses and the cleaner
\* rests.
NextCancel ==
    \/ \E r \in Handlers :
         \/ Receive(r)
         \/ CacheGetL1(r)
         \/ CacheGetL2(r)
         \/ CacheFill(r)
         \/ Stat(r)
         \/ Open(r)
         \/ Serve(r)
         \/ PurgeL1(r)
         \/ PurgeL2(r)
         \/ PurgeDisk(r)
         \/ Cancel(r)
    \/ \E g \in Goroutines :
         \/ Do(g)
         \/ DoubleCheck(g)
         \/ Fetch(g)
         \/ AwCopy(g)
         \/ AwExists(g)
         \/ AwRemove(g)
         \/ AwRename(g)
         \/ AwChtimes(g)
         \/ CacheSetL1(g)
         \/ CacheSetL2(g)

\* Requests against a remote tier that may fail, while no TTL lapses and
\* the cleaner rests.
NextStore ==
    \/ \E r \in Handlers :
         \/ Receive(r)
         \/ CacheGetL1(r)
         \/ CacheGetL2(r)
         \/ CacheFill(r)
         \/ Stat(r)
         \/ Open(r)
         \/ Serve(r)
         \/ PurgeL1(r)
         \/ PurgeL2(r)
         \/ PurgeDisk(r)
    \/ \E g \in Goroutines :
         \/ Do(g)
         \/ DoubleCheck(g)
         \/ Fetch(g)
         \/ AwCopy(g)
         \/ AwExists(g)
         \/ AwRemove(g)
         \/ AwRename(g)
         \/ AwChtimes(g)
         \/ CacheSetL1(g)
         \/ CacheSetL2(g)
    \/ Outage

(***************************************************************************)
(* validateSignature on its own: a signature made for one parameter map    *)
(* with one secret is presented with another map to a process that holds   *)
(* another secret.                                                         *)
(***************************************************************************)
SigSecrets == { Secret_k, Secret_j }

SigQueries ==
    { <<>>,
      << <<<<"a">>, <<"1">>>> >>,
      << <<<<"a">>, <<"1">>>>, <<<<"b">>, <<"2">>>> >>,
      << <<<<"a">>, <<"1", "&", "b", "=", "2">>>> >>,
      << <<<<"b">>, <<"2">>>> >>,
      << <<<<"a">>, <<"b", "=", "c">>>> >>,
      << <<<<"a", "=", "b">>, <<"c">>>> >> }

Verify(p, k, q, j) ==
    /\ verified' =
          [ done      |-> TRUE,
            signed    |-> ParseQuery(p),
            secret    |-> k,
            presented |-> ParseQuery(q),
            with      |-> j,
            accepted  |-> validateSignature(
                              Path_png,
                              ParseQuery(WithSignature(q, Sign(Path_png, p, k))),
                              j, 0) ]
    /\ UNCHANGED << cfg, inputs, seeded, extras, derived, limiterVars, redisVars, s3call,
                    pipeline >>

SigNext ==
    \E p \in SigQueries : \E q \in SigQueries :
        \E k \in SigSecrets : \E j \in SigSecrets : Verify(p, k, q, j)

SpecSig == Init(CfgSigned, {}) /\ [][SigNext]_vars

\* Every variant of PurgeScenarios, one per behaviour.
SpecPurge ==
    /\ \E sc \in PurgeScenarios : Init(sc.cfg, sc.requests)
    /\ [][Next]_vars

SpecSigned == Init(CfgSigned, SignedRequests) /\ [][Next]_vars

\* The requests with a well-formed expires, or those with a malformed one.
SpecExpiry ==
    /\ \E sc \in ExpiryScenarios : Init(sc.cfg, sc.requests)
    /\ [][Next]_vars

(***************************************************************************)
(* Properties of the pipeline.                                             *)
(***************************************************************************)
\* The steps of a producer: the body of a Group.Do call of HandleRequest.
ProducerSteps ==
    { "doublecheck", "fetch", "aw_copy", "aw_exists", "aw_remove",
      "aw_rename", "aw_chtimes", "set_l1", "set_l2" }

Producers(k) == { g \in Goroutines : pc[g] \in ProducerSteps /\ KeyOf(g) = k }

Complete(content) == \E w \in Writers : content = Payload(w)

\* C1: for every cache key, at most one producer (foreground miss resolution
\* or background revalidation) is executing at any instant.
C1_OneProducerPerKey == \A k \in DOMAIN flight : Cardinality(Producers(k)) <= 1

\* A background revalidation is producing while a foreground miss of the
\* same key waits on it.
C1_Witness ==
    \E r \in Handlers : \E h \in Handlers :
        /\ pc[Bg(r)] \in ProducerSteps
        /\ pc[h] = "wait"
        /\ key[h] = key[r]

\* The burst of C2: the key was in no tier when the requests arrived, no
\* TTL has lapsed on its entry, nothing has removed it, and no producer of
\* it has failed.
ColdBurst(k) == ~seeded[k] /\ ~aged[k] /\ ~unlinked[k] /\ ~failed[k]

Answered(r) == pc[r] = "done" /\ rq[r].method = "GET"

\* C2: concurrent GETs of a key that no tier holds fetch the origin once in
\* total, and each is answered 200 with the committed payload.
C2_MissesFetchOnce ==
    \A k \in DOMAIN fetches :
        ColdBurst(k) =>
            /\ fetches[k] <= 1
            /\ \A r \in Handlers :
                   Answered(r) /\ key[r] = k =>
                       /\ status[r] = 200
                       /\ Complete(body[r])
                       /\ fetches[k] = 1

\* Every request of the burst is answered; one of them probed the disk
\* before the commit and entered the coalescer after the producer was done.
C2_Witness ==
    \E k \in DOMAIN fetches :
        /\ ColdBurst(k)
        /\ \A r \in Handlers : Answered(r) /\ key[r] = k /\ status[r] = 200
        /\ \E r \in Handlers : probe[r] = "appeared"
        /\ fetches[k] = 1

\* C3: the file at a cache path is absent or holds the whole payload of one
\* commit.
C3_DestNeverPartial ==
    \A k \in DOMAIN dest : dest[k].exists => Complete(dest[k].content)

\* A refresh has written a part of its payload while the path holds the
\* payload of the commit before it.
C3_Witness ==
    \E g \in Goroutines :
        /\ temp[g].exists
        /\ Len(temp[g].content) = 1
        /\ dest[KeyOf(g)].exists
        /\ Complete(dest[KeyOf(g)].content)

\* C4: once a commit to a path has succeeded and neither purge nor the
\* cleaner removes the path, every open of it succeeds: a request that found
\* the entry in its disk probe is not answered 500.
C4_CommittedEntryOpens ==
    \A r \in Handlers :
        probe[r] \in {"fresh", "stale"} /\ ~unlinked[key[r]] => status[r] # 500

\* C5: a GET that finds a stale entry is answered from the file that is
\* there.
C5_StaleHitServed ==
    \A r \in Handlers :
        pc[r] = "done" /\ probe[r] = "stale" /\ ~unlinked[key[r]] =>
            status[r] = 200 /\ Complete(body[r])

\* C6: a DELETE that ran alone leaves the cache key of the GET of the same
\* URL and headers absent from the memory tier, the remote tier and the
\* disk.
C6_PurgeRemovesGetKey ==
    \A r \in Handlers :
        /\ rq[r].method = "DELETE"
        /\ pc[r] = "done"
        /\ status[r] = 200
        /\ \A g \in Goroutines \ {r} : pc[g] = "idle"
        => LET k == RequestCacheKey([rq[r] EXCEPT !.method = "GET"], cfg)
           IN  mem[k] = <<>> /\ remote[k] = <<>> /\ ~dest[k].exists

(***************************************************************************)
(* Signatures, as the README defines them.                                 *)
(***************************************************************************)
QueryOf(r) == ParseQuery(rq[r].query)

MacValid(r) ==
    Get(QueryOf(r), Str_s)
        = Hmac(cfg.SecretKey, CanonicalString(rq[r].path, QueryOf(r)))

ExpiresOf(r) == Get(QueryOf(r), Str_expires)

IsDecimal(e) == ParseIntOk(e)

Expired(r) ==
    /\ Str_expires \in DOMAIN QueryOf(r)
    /\ \/ ~IsDecimal(ExpiresOf(r))
       \/ rq[r].now > ParseIntVal(ExpiresOf(r))

ValidSignature(r) ==
    /\ Get(QueryOf(r), Str_s) # <<>>
    /\ MacValid(r)
    /\ ~Expired(r)

Received(r) == pc[r] # "idle"

\* C7: with a secret configured, a DELETE without a valid signature
\* accesses neither the cache tiers nor the disk, and is answered 403.
C7_UnsignedDeleteRefused ==
    cfg.SecretKey # <<>> =>
        \A r \in Handlers :
            Received(r) /\ rq[r].method = "DELETE" /\ ~ValidSignature(r) =>
                /\ touched[r] = {}
                /\ pc[r] = "done" => status[r] = 403

\* The case of C8: a request with a query whose signature is missing,
\* mismatched or expired, received by a process with a secret.
BadlySigned(r) ==
    /\ cfg.SecretKey # <<>>
    /\ Received(r)
    /\ DOMAIN QueryOf(r) # {}
    /\ \/ Get(QueryOf(r), Str_s) = <<>>
       \/ ~MacValid(r)
       \/ /\ IsDecimal(ExpiresOf(r))
          /\ rq[r].now > ParseIntVal(ExpiresOf(r))

Untouched(r) == touched[r] = {} /\ pc[r] = "done" /\ pc[Bg(r)] = "idle"

\* C8 as stated: every badly signed request with a query is answered 403
\* and accesses no origin, cache tier, disk or coalescer.
C8_BadSignatureIs403 ==
    \A r \in Handlers : BadlySigned(r) => status[r] = 403 /\ Untouched(r)

\* C8, amended: a badly signed request with a query is answered 400 when
\* its path is invalid and 403 otherwise, and in both cases it accesses no
\* origin, cache tier, disk or coalescer.
C8_BadSignatureRefused ==
    \A r \in Handlers :
        BadlySigned(r) =>
            /\ status[r] =
                 IF InvalidPath(ObjectKey(rq[r].path)) THEN 400 ELSE 403
            /\ Untouched(r)

\* A request signed with another secret has been refused while a signed
\* one has gone as far as the origin.
C8_Witness ==
    \E r \in Handlers : \E h \in Handlers :
        /\ BadlySigned(r)
        /\ Get(QueryOf(r), Str_s) # <<>>
        /\ status[r] = 403
        /\ "origin" \in touched[h]

\* C9: a signature made for a parameter map with a secret is accepted for
\* a presented map and a verifying secret exactly when the maps are equal
\* and the secrets are equal.
C9_AcceptedIffSame ==
    verified.done =>
        ( verified.accepted <=>
            /\ verified.presented = verified.signed
            /\ verified.with = verified.secret )

Str_cover == <<"c", "o", "v", "e", "r">>

Q(name, value) == << name, value >>

\* Queries that reorder one list of pairs, with and without repeated names;
\* two queries whose names and values concatenate to the same bytes; a signed
\* query.
KeyQueries ==
    { << Q(Str_w, <<"1">>), Q(Str_h, <<"2">>) >>,
      << Q(Str_h, <<"2">>), Q(Str_w, <<"1">>) >>,
      << Q(Str_w, <<"1">>), Q(Str_h, <<"2">>), Q(Str_s, <<"z">>) >>,
      << Q(Str_w, <<"1">>), Q(Str_w, <<"2">>) >>,
      << Q(Str_w, <<"2">>), Q(Str_w, <<"1">>) >>,
      << Q(Str_w, <<"1">>), Q(Str_w, <<"2">>), Q(Str_w, <<"3">>) >>,
      << Q(Str_w, <<"1">>), Q(Str_w, <<"3">>), Q(Str_w, <<"2">>) >>,
      << Q(Str_fit, Str_cover), Q(Str_w, <<"1">>) >>,
      << Q(Str_fit, Str_cover \o Str_w \o <<"1">>) >> }

\* Transforms of /a.png, one of them with a negotiated format, and two
\* passthrough encodings of /a.css.
KeyRequests ==
    { Request("GET", Path_png, q, <<>>, <<>>, FALSE, 0) : q \in KeyQueries }
    \cup { Request("GET", Path_png, Query_w, Str_imageWebp, <<>>, FALSE, 0),
           Request("GET", Path_css, <<>>, <<>>, Str_br, FALSE, 0),
           Request("GET", Path_css, <<>>, <<>>, <<>>, FALSE, 0) }

DeriveKeys(a, b) ==
    /\ derived' = [ done |-> TRUE, a |-> a, b |-> b,
                    ka |-> RequestCacheKey(a, cfg),
                    kb |-> RequestCacheKey(b, cfg) ]
    /\ UNCHANGED << cfg, inputs, seeded, extras, verified, limiterVars, redisVars, s3call,
                    pipeline >>

KeyNext == \E a \in KeyRequests : \E b \in KeyRequests : DeriveKeys(a, b)

SpecKey == Init(CfgOpen, {}) /\ [][KeyNext]_vars

(***************************************************************************)
(* Properties of the cache keys.                                           *)
(***************************************************************************)
Count(q, x) == Cardinality({ i \in 1..Len(q) : q[i] = x })

PairsOf(q) == { q[i] : i \in 1..Len(q) }

NamesOf(q) == { q[i][1] : i \in 1..Len(q) }

\* p and q list the same name=value pairs, each as often, in any order.
IsPermutation(p, q) ==
    /\ Len(p) = Len(q)
    /\ \A x \in PairsOf(p) \cup PairsOf(q) : Count(p, x) = Count(q, x)

\* The value of the first pair of the query string with this name.
FirstOf(q, name) ==
    LET at == { i \in 1..Len(q) : q[i][1] = name }
    IN  q[CHOOSE i \in at : \A j \in at : i <= j][2]

SameFirstValues(p, q) ==
    /\ NamesOf(p) = NamesOf(q)
    /\ \A n \in NamesOf(p) : FirstOf(p, n) = FirstOf(q, n)

FormatOf(d) ==
    NegotiatedOptions(ObjectKey(d.path), ParseQuery(d.query), d.accept, cfg).Format

\* The two requests are transforms of one object with one negotiated format.
SameVariantBase ==
    /\ derived.done
    /\ IsProcessed(derived.a, cfg) /\ IsProcessed(derived.b, cfg)
    /\ ObjectKey(derived.a.path) = ObjectKey(derived.b.path)
    /\ FormatOf(derived.a) = FormatOf(derived.b)

\* C11 as stated: two query strings that are permutations of one list of
\* name=value pairs, repeated names included, give the same processed cache
\* key for one object key and negotiated format.
C11_PermutationsShareKey ==
    (SameVariantBase /\ IsPermutation(derived.a.query, derived.b.query))
        => derived.ka = derived.kb

\* C11 amended: permutations of one list of name=value pairs in which every
\* name keeps its first value give the same processed cache key for one
\* object key and negotiated format.
C11_FirstValuePermutationsShareKey ==
    (/\ SameVariantBase
     /\ IsPermutation(derived.a.query, derived.b.query)
     /\ SameFirstValues(derived.a.query, derived.b.query))
        => derived.ka = derived.kb

\* Two different orders of a list with a repeated name that keep the first
\* value of the name.
C11_Witness ==
    /\ SameVariantBase
    /\ derived.a.query # derived.b.query
    /\ IsPermutation(derived.a.query, derived.b.query)
    /\ SameFirstValues(derived.a.query, derived.b.query)
    /\ Len(derived.a.query) > Cardinality(NamesOf(derived.a.query))
    /\ derived.ka = derived.kb

\* The name=value pairs of a request other than its signature.
NonSignature(d) == { x \in PairsOf(d.query) : x[1] # Str_s }

\* The format of a transform, the encoding of a passthrough.
FormatOrEncoding(d) ==
    IF IsProcessed(d, cfg) THEN FormatOf(d) ELSE EncodingType(d.acceptEncoding)

\* C12: two requests with the same cache key have the same object key, the
\* same non-signature name=value pairs and the same format or encoding.
C12_KeyDeterminesVariant ==
    (derived.done /\ derived.ka = derived.kb)
        => /\ ObjectKey(derived.a.path) = ObjectKey(derived.b.path)
           /\ NonSignature(derived.a) = NonSignature(derived.b)
           /\ FormatOrEncoding(derived.a) = FormatOrEncoding(derived.b)

(***************************************************************************)
(* The local rate limiter: one token bucket per client IP, held in an LRU  *)
(* that expires its entries.  Time is counted in ticks; tokens are counted *)
(* in units of 1/TicksPerSecond of a request.                              *)
(***************************************************************************)
TicksPerSecond == 3
MaxTime == 6
MaxCalls == 4

RateLimits == {1, 2}

WithRateLimit(c, l) == [c EXCEPT !.RateLimit = l]

\* A bucket that starts at twice the limit.
BurstDouble(l) == 2 * l

\* NewMemoryLimiter: the burst equals the limit.
Burst(l) == l

Min(x, y) == IF x <= y THEN x ELSE y

\* rate.NewLimiter(r, b): a full bucket.
NewLimiter(l) ==
    [present |-> TRUE, tokens |-> Burst(l) * TicksPerSecond, last |-> 0]

\* rate.Limiter: the tokens at time now, l per second up to the burst.
Advance(lim, now, l) ==
    Min(Burst(l) * TicksPerSecond, lim.tokens + (now - lim.last) * l)

Tick ==
    /\ clock < MaxTime
    /\ clock' = clock + 1
    /\ UNCHANGED << cfg, inputs, seeded, extras, verified, derived, limiters, calls,
                    redisVars, s3call, pipeline >>

\* MemoryLimiter.Allow(ip) at the present time: its answer, and the bucket
\* it leaves for ip.
Allow(ip) ==
    LET l      == cfg.RateLimit
        lim    == IF limiters[ip].present THEN limiters[ip]
                  ELSE [NewLimiter(l) EXCEPT !.last = clock]
        tokens == Advance(lim, clock, l)
        ok     == tokens >= TicksPerSecond
    IN  [ ok |-> ok,
          bucket |-> [present |-> TRUE,
                      tokens |-> IF ok THEN tokens - TicksPerSecond ELSE tokens,
                      last |-> clock] ]

\* MemoryLimiter.Allow for a request of ip, and the answer of the guard.
LocalAllow(ip) ==
    /\ Len(calls) < MaxCalls
    /\ LET ok == Allow(ip).ok
       IN  /\ limiters' = [limiters EXCEPT ![ip] = Allow(ip).bucket]
           /\ calls' = Append(calls, [ip |-> ip, at |-> clock, ok |-> ok,
                                      fresh |-> ~limiters[ip].present,
                                      status |-> IF ok THEN 200 ELSE 429])
    /\ UNCHANGED << cfg, inputs, seeded, extras, verified, derived, clock, redisVars,
                    s3call, pipeline >>

\* The LRU drops the bucket of ip: its hour has passed, or 10000 other
\* clients have displaced it.
LocalEvict(ip) ==
    /\ limiters[ip].present
    /\ limiters' = [limiters EXCEPT ![ip] = NoLimiter]
    /\ UNCHANGED << cfg, inputs, seeded, extras, verified, derived, clock, calls,
                    redisVars, s3call, pipeline >>

LocalNext ==
    \/ Tick
    \/ \E ip \in IPs : LocalAllow(ip)
    \/ \E ip \in IPs : LocalEvict(ip)

SpecLocalLimit ==
    /\ \E l \in RateLimits : Init(WithRateLimit(CfgOpen, l), {})
    /\ [][LocalNext]_vars

(***************************************************************************)
(* Properties of the local rate limiter.                                   *)
(***************************************************************************)
\* The calls of ip among the calls i..j.
CallsOf(ip, i, j) == { n \in i..j : calls[n].ip = ip }

Admitted(ip, i, j) == Cardinality({ n \in CallsOf(ip, i, j) : calls[n].ok })

\* Calls i <= j are of one IP and less than a second apart.
WithinASecond(i, j) ==
    /\ i <= j
    /\ calls[i].ip = calls[j].ip
    /\ calls[j].at - calls[i].at < TicksPerSecond

\* The bucket of the IP was not replaced after call i up to call j.
SameBucket(i, j) ==
    \A n \in CallsOf(calls[i].ip, i + 1, j) : ~calls[n].fresh

\* C13 as stated: of the requests of one IP that arrive within less than a
\* second at most L are admitted.
C13_AtMostLimitPerSecond ==
    \A i \in 1..Len(calls) : \A j \in 1..Len(calls) :
        WithinASecond(i, j) => Admitted(calls[i].ip, i, j) <= cfg.RateLimit

\* C13 amended: while the bucket of an IP stays in the LRU, of its requests
\* that arrive within d seconds at most L + L * d are admitted, fewer than
\* 2 * L when d is less than a second, and every request answered 429 is
\* one that was not admitted.
C13_AtMostBurstPlusRefill ==
    \A i \in 1..Len(calls) : \A j \in 1..Len(calls) :
        /\ (i <= j /\ calls[i].ip = calls[j].ip /\ SameBucket(i, j))
              => Admitted(calls[i].ip, i, j) * TicksPerSecond
                    <= cfg.RateLimit * TicksPerSecond
                       + cfg.RateLimit * (calls[j].at - calls[i].at)
        /\ (WithinASecond(i, j) /\ SameBucket(i, j))
              => Admitted(calls[i].ip, i, j) < 2 * cfg.RateLimit
        /\ (calls[i].status = 429) = ~calls[i].ok

\* Three requests of one IP within less than a second at limit 2, all with
\* one bucket: the first two admitted, and a later one refused.
C13_Witness ==
    /\ cfg.RateLimit = 2
    /\ \E i \in 1..Len(calls) : \E j \in 1..Len(calls) :
          /\ WithinASecond(i, j) /\ SameBucket(i, j)
          /\ Cardinality(CallsOf(calls[i].ip, i, j)) >= 3
          /\ Admitted(calls[i].ip, i, j) >= 2
          /\ calls[j].status = 429

(***************************************************************************)
(* The shared rate limiter: a sorted set per client IP on the Redis        *)
(* server, updated by a script the server runs atomically.  A caller reads *)
(* its clock first and sends the script afterwards.                        *)
(***************************************************************************)
\* NewRedisLimiter: window is time.Second.
Window == TicksPerSecond

\* Allow: expireSeconds is the window in seconds plus one.
ExpireTicks == 2 * TicksPerSecond

\* The script of Allow on sorted set z with ARGV limit and now, run when the
\* server's clock shows at: the set it leaves and the number it returns.
Script(z, limit, now, at) ==
    LET kept  == { x \in z.scores : x > now - Window }
        count == Cardinality(kept)
    IN  IF count < limit
        THEN [zset |-> [scores |-> kept \cup {now}, expireAt |-> at + ExpireTicks],
              val |-> 1]
        ELSE [zset |-> [scores |-> kept, expireAt |-> z.expireAt], val |-> 0]

\* An Allow that refuses when the round trip fails.
FailClosed == FALSE

\* Allow: what it returns when Eval returned an error.
FailOpen == TRUE

Verdict(c, ok, err, val) ==
    [ ip |-> callers[c].ip, now |-> callers[c].now, ok |-> ok, err |-> err,
      val |-> val, status |-> IF ok THEN 200 ELSE 429 ]

\* Allow up to time.Now().  Callers start in the order of their numbers.
RedisNow(c, ip) ==
    /\ callers[c].at = "idle"
    /\ \A d \in Callers : d < c => callers[d].at # "idle"
    /\ callers' = [callers EXCEPT ![c] = [at |-> "eval", ip |-> ip, now |-> clock]]
    /\ UNCHANGED << cfg, inputs, seeded, extras, verified, derived, limiterVars, zsets,
                    verdicts, s3call, pipeline >>

\* Eval runs the script and its reply reaches the caller.
RedisEval(c) ==
    /\ callers[c].at = "eval"
    /\ LET out == Script(zsets[callers[c].ip], cfg.RateLimit, callers[c].now, clock)
       IN  /\ zsets' = [zsets EXCEPT ![callers[c].ip] = out.zset]
           /\ verdicts' = Append(verdicts, Verdict(c, out.val = 1, FALSE, out.val))
    /\ callers' = [callers EXCEPT ![c].at = "done"]
    /\ UNCHANGED << cfg, inputs, seeded, extras, verified, derived, limiterVars, s3call,
                    pipeline >>

\* The round trip fails: the script did not run, or it ran and its reply was
\* lost.
RedisEvalFails(c, ran) ==
    /\ callers[c].at = "eval"
    /\ LET out == Script(zsets[callers[c].ip], cfg.RateLimit, callers[c].now, clock)
       IN  /\ zsets' = IF ran THEN [zsets EXCEPT ![callers[c].ip] = out.zset]
                       ELSE zsets
           /\ verdicts' = Append(verdicts, Verdict(c, FailOpen, TRUE, out.val))
    /\ callers' = [callers EXCEPT ![c].at = "done"]
    /\ UNCHANGED << cfg, inputs, seeded, extras, verified, derived, limiterVars, s3call,
                    pipeline >>

\* The server deletes the key when its EXPIRE time has come.
RedisExpire(ip) ==
    /\ zsets[ip].scores # {}
    /\ clock >= zsets[ip].expireAt
    /\ zsets' = [zsets EXCEPT ![ip] = NoZset]
    /\ UNCHANGED << cfg, inputs, seeded, extras, verified, derived, limiterVars, callers,
                    verdicts, s3call, pipeline >>

\* The callers ask for one client; the last one may ask for another.
CallerIPs(c) == IF c < MaxCallers THEN {"a"} ELSE IPs

RedisNext ==
    \/ Tick
    \/ \E c \in Callers : \E ip \in CallerIPs(c) : RedisNow(c, ip)
    \/ \E c \in Callers : RedisEval(c)
    \/ \E c \in Callers : \E ran \in BOOLEAN : RedisEvalFails(c, ran)
    \/ \E ip \in IPs : RedisExpire(ip)

SpecRedisLimit ==
    /\ \E l \in RateLimits : Init(WithRateLimit(CfgOpen, l), {})
    /\ [][RedisNext]_vars

(***************************************************************************)
(* Properties of the shared rate limiter.                                  *)
(***************************************************************************)
NoTransportError == \A n \in 1..Len(verdicts) : ~verdicts[n].err

\* The calls for the IP of call i admitted with a timestamp in the window
\* that starts at the timestamp of call i.
AdmittedInWindow(i) ==
    { n \in 1..Len(verdicts) :
        /\ verdicts[n].ip = verdicts[i].ip
        /\ verdicts[n].ok
        /\ verdicts[n].now >= verdicts[i].now
        /\ verdicts[n].now < verdicts[i].now + Window }

\* C14: without transport errors, for every key and every window the number
\* of Allow calls that return true is at most the limit, equal timestamps
\* included.
C14_AtMostLimitPerWindow ==
    NoTransportError =>
        \A i \in 1..Len(verdicts) :
            Cardinality(AdmittedInWindow(i)) <= cfg.RateLimit

\* C15: an Allow whose round trip failed returns true, and its request is
\* not answered 429.
C15_TransportErrorAllows ==
    \A n \in 1..Len(verdicts) :
        verdicts[n].err => (verdicts[n].ok /\ verdicts[n].status # 429)

\* A round trip failed for a call the script refuses, and the call returned
\* true.
C15_Witness ==
    \E n \in 1..Len(verdicts) :
        verdicts[n].err /\ verdicts[n].val = 0 /\ verdicts[n].ok

(***************************************************************************)
(* The origin client: GetObject on the primary bucket, with a second try   *)
(* on the backup bucket.                                                   *)
(***************************************************************************)
ErrorCodes == {"", "NoSuchKey", "NotFound", "AccessDenied"}

Statuses == {0, 301, 400, 403, 404, 408, 429, 500, 503}

Lengths == {-1, 5}

PrimaryOutcomes ==
    { Object("primary", n) : n \in Lengths }
    \cup { Failure("primary", c, st) : c \in ErrorCodes, st \in Statuses }

BackupOutcomes ==
    { Object("backup", n) : n \in Lengths }
    \cup { Failure("backup", c, st) : c \in {"", "NoSuchKey"}, st \in {0, 404} }

\* A client that tries the backup after every failure.
shouldFailoverAlways(err) == TRUE

shouldFailover(err) ==
    IF err.code \in {"NoSuchKey", "NotFound"} THEN TRUE
    ELSE IF err.status # 0
         THEN IF err.status \in {404, 408, 429} THEN TRUE
              ELSE IF err.status >= 500 THEN TRUE
              ELSE IF err.status >= 400 /\ err.status < 500 THEN FALSE
              ELSE TRUE
         ELSE TRUE

\* A client that reports the backup's error.
BackupError(err, errBackup) == errBackup

\* GetObject: the error returned when no bucket gave the object.
ReturnedError(err, errBackup) == err

ContentLength(resp) == IF resp.length = -1 THEN 0 ELSE resp.length

\* S3Client.GetObject with a backup bucket configured or not; primary and
\* backup are what the two buckets answer when asked.
GetObject(backupBucket, primary, backup) ==
    /\ LET tried == ~primary.ok /\ backupBucket /\ shouldFailover(primary)
           from  == IF primary.ok THEN primary
                    ELSE IF tried /\ backup.ok THEN backup
                    ELSE NoError
       IN  s3call' =
             [ done         |-> TRUE,
               backupBucket |-> backupBucket,
               primary      |-> primary,
               backup       |-> IF tried THEN backup ELSE NoError,
               contacted    |-> tried,
               body         |-> from.from,
               size         |-> IF from = NoError THEN 0 ELSE ContentLength(from),
               err          |-> IF from = NoError
                                THEN ReturnedError(primary, backup)
                                ELSE NoError ]
    /\ UNCHANGED << cfg, inputs, seeded, extras, verified, derived, limiterVars,
                    redisVars, pipeline >>

S3Next ==
    \E b \in BOOLEAN : \E p \in PrimaryOutcomes : \E q \in BackupOutcomes :
        GetObject(b, p, q)

SpecS3 == Init(CfgOpen, {}) /\ [][S3Next]_vars

(***************************************************************************)
(* Properties of the origin client.                                        *)
(***************************************************************************)
\* The failures the failover policy names.
Qualifies(err) ==
    \/ err.code \in {"NoSuchKey", "NotFound"}
    \/ err.status \in {404, 408, 429}
    \/ err.status >= 500
    \/ err.status = 0

\* C16 as stated: the backup bucket is contacted if and only if one is
\* configured and the primary failed with NoSuchKey or NotFound, with status
\* 404, 408, 429 or at least 500, or without an HTTP response.
C16_BackupIffQualifies ==
    s3call.done =>
        (s3call.contacted <=>
            (s3call.backupBucket /\ ~s3call.primary.ok
             /\ Qualifies(s3call.primary)))

\* C16 amended: the backup bucket is contacted if and only if one is
\* configured and the primary failed with NoSuchKey or NotFound, with status
\* 404, 408, 429, at least 500 or below 400, or without an HTTP response;
\* never after another 4xx failure.
C16_BackupIffNotOther4xx ==
    s3call.done =>
        /\ s3call.contacted <=>
              (s3call.backupBucket /\ ~s3call.primary.ok
               /\ (Qualifies(s3call.primary) \/ s3call.primary.status < 400))
        /\ (/\ ~s3call.primary.ok
            /\ s3call.primary.code \notin {"NoSuchKey", "NotFound"}
            /\ s3call.primary.status \in {400, 403})
              => ~s3call.contacted

\* A backup is configured and the primary fails with 403 AccessDenied: the
\* backup is not asked.
C16_Witness ==
    /\ s3call.done /\ s3call.backupBucket
    /\ s3call.primary = Failure("primary", "AccessDenied", 403)
    /\ ~s3call.contacted

\* C17: when the backup was asked and failed too, GetObject returns the
\* primary's error; when the backup gave the object, GetObject returns the
\* backup's body and size and no error.
C17_PrimaryErrorSurfaces ==
    (s3call.done /\ s3call.contacted) =>
        IF s3call.backup.ok
        THEN /\ s3call.err = NoError
             /\ s3call.body = "backup"
             /\ s3call.size = ContentLength(s3call.backup)
        ELSE /\ s3call.err = s3call.primary
             /\ s3call.err.from = "primary"

\* Both buckets failed, with different errors.
C17_Witness ==
    /\ s3call.done /\ s3call.contacted
    /\ ~s3call.backup.ok
    /\ s3call.primary.status = 503 /\ s3call.backup.status = 404
    /\ s3call.err = s3call.primary

(***************************************************************************)
(* Properties of the cache tiers.                                          *)
(***************************************************************************)
\* C18: every entry of the memory tier, one back-populated after a remote
\* hit included, has an expiry, so that it stops being returned no later
\* than the tier's TTL after its insertion.
C18_MemoryEntriesExpire ==
    \A k \in DOMAIN mem : mem[k] # <<>> => memExpires[k]

\* The purge of handler r has returned, and no producer has run for its
\* key, so that no Set of the key was ever issued.
DeletedWithoutSet(r) ==
    /\ rq[r].method = "DELETE"
    /\ pc[r] = "done"
    /\ status[r] = 200
    /\ fetches[key[r]] = 0

\* C19: after Delete(k) has returned, with no Set(k) during or after it, k
\* is absent from the memory tier and from the remote tier, whatever Get(k)
\* calls run at the same time.
C19_DeleteLeavesNoEntry ==
    \A r \in Handlers :
        DeletedWithoutSet(r) => (mem[key[r]] = <<>> /\ remote[key[r]] = <<>>)

(***************************************************************************)
(* Properties of the response headers.                                     *)
(***************************************************************************)
\* Handler r has answered 200 to a GET of an image with blurhash=true.
BlurhashServed(r) ==
    /\ rq[r].method = "GET"
    /\ pc[r] = "done"
    /\ status[r] = 200
    /\ isImageFile(ObjectKey(rq[r].path))
    /\ << Str_blurhash, Str_true >> \in { rq[r].query[i] : i \in 1..Len(rq[r].query) }

\* C20: every 200 response to a GET of an image with blurhash=true has the
\* Content-Type text/plain, whether it is served from a tier, from a fresh
\* or stale cache file, or after a miss.
C20_BlurhashIsTextPlain ==
    \A r \in Handlers : BlurhashServed(r) => ctype[r] = "text/plain"

(***************************************************************************)
(* parseImageOptions on its own: two queries parsed under one preset map.  *)
(***************************************************************************)
Preset_avatar == <<"a", "v">>
Preset_broken == <<"b", "r", "k">>
Preset_unknown == <<"n", "o">>

\* PRESETS: none, or a preset with a fragment and one whose fragment
\* url.ParseQuery refuses.
PresetMaps ==
    { <<>>,
      [n \in {Preset_avatar, Preset_broken} |->
          IF n = Preset_avatar
          THEN Preset(TRUE, << <<Str_w, <<"2">>>>, <<Str_fit, Str_cover>> >>)
          ELSE Preset(FALSE, <<>>)] }

\* What a caller adds next to the preset parameter.
CallerParams ==
    { <<>>,
      << <<Str_w, <<"1">>>> >>,
      << <<Str_h, <<"3">>>>, <<Str_q, <<"9">>>> >>,
      << <<Str_format, Str_webp>>, <<Str_fit, Str_cover>> >> }

PresetQueries ==
    { << <<Str_preset, n>> >> \o q :
        n \in {Preset_avatar, Preset_broken, Preset_unknown},
        q \in CallerParams }

ParseOptions(ps, a, b) ==
    /\ parsed' = [ done |-> TRUE, presets |-> ps, a |-> a, b |-> b,
                   oa |-> parseImageOptions(ParseQuery(a), ps),
                   ob |-> parseImageOptions(ParseQuery(b), ps) ]
    /\ UNCHANGED << others, pipeline, guarded, snap, ortState, wm, transformed,
                    aw, later >>

PresetNext ==
    \E ps \in PresetMaps : \E a \in PresetQueries : \E b \in PresetQueries :
        ParseOptions(ps, a, b)

SpecPreset == Init(CfgOpen, {}) /\ [][PresetNext]_vars

(***************************************************************************)
(* Properties of the transform options.                                    *)
(***************************************************************************)
\* The two queries carry the same preset value.
SamePreset ==
    /\ parsed.done
    /\ Get(ParseQuery(parsed.a), Str_preset) # <<>>
    /\ Get(ParseQuery(parsed.a), Str_preset) = Get(ParseQuery(parsed.b), Str_preset)

\* The preset of the two queries is configured and its fragment parses.
PresetUsable ==
    /\ Get(ParseQuery(parsed.a), Str_preset) \in DOMAIN parsed.presets
    /\ parsed.presets[Get(ParseQuery(parsed.a), Str_preset)].ok

\* C21 as stated: two requests with the same preset value that differ in
\* other transform parameters get the same options, for every preset value,
\* names that the configuration does not define included.
C21_PresetAloneDecides ==
    SamePreset => parsed.oa = parsed.ob

\* C21 amended: two requests with the same preset value, a name that the
\* configuration defines with a fragment that parses, get the same options,
\* those of the fragment, whatever other transform parameters they carry.
C21_DefinedPresetAloneDecides ==
    (SamePreset /\ PresetUsable)
        => /\ parsed.oa = parsed.ob
           /\ parsed.oa = ParseOptionsPlain(ParseQuery(
                  parsed.presets[Get(ParseQuery(parsed.a), Str_preset)].query))

\* Two queries with a defined preset and different widths of their own.
C21_Witness ==
    /\ SamePreset /\ PresetUsable
    /\ Get(ParseQuery(parsed.a), Str_w) = <<"1">>
    /\ Get(ParseQuery(parsed.b), Str_w) = <<>>
    /\ parsed.oa = parsed.ob
    /\ parsed.oa.Width = 2

(***************************************************************************)
(* Failed miss resolutions: what HandleRequest answers for the error of    *)
(* the producer, under a size cap and with or without a default image.     *)
(***************************************************************************)
WithMaxImageSize(c, mb) == [c EXCEPT !.MaxImageSizeMB = mb]

WithDefaultImage(c, path) == [c EXCEPT !.DefaultImagePath = path]

Path_default == <<"/", "d", ".", "p", "n", "g">>

\* MAX_IMAGE_SIZE_MB
SizeLimits == {1, 404}

SizeConfigs ==
    { WithDefaultImage(WithMaxImageSize(CfgOpen, mb), dflt) :
        mb \in SizeLimits, dflt \in {<<>>, Path_default} }

\* The cache directory is empty at start-up.
EmptyDisk == \A k \in DOMAIN seeded : ~seeded[k]

SpecSize ==
    /\ \E c \in SizeConfigs : Init(c, ResizeRequests) /\ EmptyDisk
    /\ [][Next]_vars

\* The request of r was answered after its miss resolution failed.
FailedMiss(r) == pc[r] = "done" /\ doErr[r] # "nil"

\* C22: a miss resolution that fails because the origin object exceeds the
\* configured maximum input size is answered 413, for every configured
\* limit.
C22_OversizeAnswered413 ==
    \A r \in Handlers :
        FailedMiss(r) /\ doErr[r] = "FileSize" => status[r] = 413

\* C23: a failed miss resolution is answered with the default image (200)
\* or 404 exactly when the failure is the origin's not-found error; every
\* other failure is answered 500.
C23_OnlyNotFoundIs404 ==
    \A r \in Handlers :
        FailedMiss(r) =>
            /\ status[r] \in {200, 404} <=> doErr[r] = "NotFound"
            /\ doErr[r] # "NotFound" => status[r] = 500

(***************************************************************************)
(* The guards of HandleRequest, from the CIDR allowlist to the path check. *)
(***************************************************************************)
\* The position of the first occurrence of sub in s, 0 when there is none.
IndexOf(s, sub) ==
    IF Contains(s, sub)
    THEN CHOOSE i \in 1..Len(s) :
            /\ SubSeq(s, i, i + Len(sub) - 1) = sub
            /\ \A j \in 1..(i - 1) : SubSeq(s, j, j + Len(sub) - 1) # sub
    ELSE 0

HasPrefix(s, prefix) ==
    Len(prefix) <= Len(s) /\ SubSeq(s, 1, Len(prefix)) = prefix

\* The elements of a path between its slashes.
RECURSIVE SplitPath(_)
SplitPath(p) ==
    LET i == IndexOf(p, <<"/">>)
    IN  IF i = 0 THEN << p >>
        ELSE << SubSeq(p, 1, i - 1) >> \o SplitPath(SubSeq(p, i + 1, Len(p)))

\* filepath.Clean on the elements of a rooted path: empty and "." elements
\* are dropped, ".." drops the element before it and is dropped at the root.
RECURSIVE CleanElems(_, _)
CleanElems(elems, kept) ==
    IF elems = <<>> THEN kept
    ELSE LET e == Head(elems)
         IN  IF e = <<>> \/ e = <<".">> THEN CleanElems(Tail(elems), kept)
             ELSE IF e = Str_dotdot
             THEN CleanElems(Tail(elems),
                             IF kept = <<>> THEN kept
                             ELSE SubSeq(kept, 1, Len(kept) - 1))
             ELSE CleanElems(Tail(elems), Append(kept, e))

RECURSIVE JoinPath(_)
JoinPath(elems) ==
    IF elems = <<>> THEN <<>>
    ELSE <<"/">> \o Head(elems) \o JoinPath(Tail(elems))

\* filepath.ToSlash(filepath.Clean(r.URL.Path)) for the rooted path of a
\* request.
Clean(path) ==
    LET elems == CleanElems(SplitPath(path), <<>>)
    IN  IF elems = <<>> THEN <<"/">> ELSE JoinPath(elems)

\* url.Parse refuses a value with a malformed escape.
UrlParseFails(val) == Contains(val, <<"%">>)

\* url.Parse(val).Host: what follows "//" up to the next slash, empty when
\* the value has no authority.
UrlHost(val) ==
    LET i == IndexOf(val, <<"/", "/">>)
        rest == SubSeq(val, i + 2, Len(val))
        j == IndexOf(rest, <<"/">>)
    IN  IF i = 0 THEN <<>>
        ELSE IF j = 0 THEN rest
        ELSE SubSeq(rest, 1, j - 1)

\* main: the entries of AllowedDomains that start with "^", compiled.
AllowedDomainsRegex(c) ==
    { c.AllowedDomains[i] : i \in { n \in 1..Len(c.AllowedDomains) :
                                       HasPrefix(c.AllowedDomains[n], <<"^">>) } }

\* re.MatchString(host) for an expression "^" followed by literal text.
MatchString(re, host) == HasPrefix(host, Tail(re))

\* check(val) of the domain allowlist.
DomainCheck(val, c) ==
    IF val = <<>> THEN FALSE
    ELSE IF UrlParseFails(val) THEN FALSE
    ELSE \/ \E i \in 1..Len(c.AllowedDomains) :
              LET d == c.AllowedDomains[i]
              IN  \/ d = <<"*">>
                  \/ ~HasPrefix(d, <<"^">>) /\ d = UrlHost(val)
         \/ \E re \in AllowedDomainsRegex(c) : MatchString(re, UrlHost(val))

\* A domain check that refuses a request without Referer and Origin.
DomainStageStrict(d, c) ==
    LET ipAllowed == \E ipNet \in c.AllowedCIDRNets : d.peer \in ipNet
        domainAllowed == DomainCheck(d.referer, c) \/ DomainCheck(d.origin, c)
    IN  IF ~ipAllowed /\ Len(c.AllowedDomains) > 0
        THEN (IF ~domainAllowed THEN "domain" ELSE "pass")
        ELSE IF /\ ~ipAllowed
                /\ c.AllowedCIDRNets # {}
                /\ Len(c.AllowedDomains) = 0
        THEN "ip"
        ELSE "pass"

\* The CIDR allowlist and the domain allowlist: the stage that refuses the
\* request, or "pass".
DomainStage(d, c) ==
    LET ipAllowed == \E ipNet \in c.AllowedCIDRNets : d.peer \in ipNet
        domainAllowed ==
            \/ d.referer # <<>> /\ DomainCheck(d.referer, c)
            \/ d.origin # <<>> /\ DomainCheck(d.origin, c)
            \/ d.referer = <<>> /\ d.origin = <<>>
    IN  IF ~ipAllowed /\ Len(c.AllowedDomains) > 0
        THEN (IF ~domainAllowed /\ (d.referer # <<>> \/ d.origin # <<>>)
              THEN "domain" ELSE "pass")
        ELSE IF /\ ~ipAllowed
                /\ c.AllowedCIDRNets # {}
                /\ Len(c.AllowedDomains) = 0
        THEN "ip"
        ELSE "pass"

\* The country allowlist: refuses a request that names a country outside
\* it.
CountryRefuses(d, c) ==
    /\ c.AllowedCountries # {}
    /\ d.country # <<>>
    /\ \A a \in c.AllowedCountries : ToLower(a) # ToLower(d.country)

\* HandleRequest from the CIDR allowlist to the path check: the status it
\* answers (0 when the request goes on to the signature guard), the stage
\* that answered, and whether Limiter.Allow was called; allowed is what
\* Allow answers.
Guards(d, c, allowed) ==
    IF DomainStage(d, c) # "pass"
    THEN [status |-> 403, stage |-> DomainStage(d, c), asked |-> FALSE]
    ELSE IF CountryRefuses(d, c)
    THEN [status |-> 403, stage |-> "country", asked |-> FALSE]
    ELSE IF c.RateLimit > 0 /\ ~allowed
    THEN [status |-> 429, stage |-> "rate", asked |-> TRUE]
    ELSE IF InvalidPath(ObjectKey(Clean(d.path)))
    THEN [status |-> 400, stage |-> "path", asked |-> c.RateLimit > 0]
    ELSE [status |-> 0, stage |-> "pass", asked |-> c.RateLimit > 0]

\* A request reaches HandleRequest and is taken through its guards.
Guard(d) ==
    LET g == Guards(d, cfg, Allow(d.peer).ok)
    IN  /\ guarded' = [ done |-> TRUE, peer |-> d.peer, referer |-> d.referer,
                        origin |-> d.origin, country |-> d.country,
                        path |-> d.path, status |-> g.status,
                        stage |-> g.stage, asked |-> g.asked ]
        /\ limiters' = IF g.asked
                       THEN [limiters EXCEPT ![d.peer] = Allow(d.peer).bucket]
                       ELSE limiters
        /\ UNCHANGED << cfg, inputs, seeded, parsed, snap, ortState, wm,
                        transformed, aw, verified, derived, clock, calls,
                        redisVars, s3call, pipeline, later >>

Host_x == <<"x">>
Regex_y == <<"^", "y">>
Url_x == <<"h", ":", "/", "/", "x", "/", "p">>
Url_yz == <<"h", ":", "/", "/", "y", "z">>
Url_bad == <<"h", ":", "/", "/", "x", "/", "%">>
Url_bare == <<"x">>
Path_env == <<"/", ".", "e", "n", "v">>
Path_up == <<"/", "x", "/", ".", ".", "/", ".", "e", "n", "v">>
Path_dots == <<"/", "a", ".", ".", "b">>

GuardRequest(peer, referer, org, country, path) ==
    [ peer |-> peer, referer |-> referer, origin |-> org,
      country |-> country, path |-> path ]

\* Requests of two peers, with and without the headers the guards read.
GuardRequests ==
    { GuardRequest(peer, referer, org, country, Path_png) :
        peer \in IPs,
        referer \in {<<>>, Url_x, Url_yz, Url_bad, Url_bare},
        org \in {<<>>, Url_x, Url_yz},
        country \in {<<>>, <<"D", "E">>, <<"f", "r">>} }
    \cup
    { GuardRequest(peer, referer, <<>>, <<>>, path) :
        peer \in IPs,
        referer \in {<<>>, Url_yz},
        path \in {Path_root, Path_env, Path_up, Path_dots} }

\* The allowlists and the limit a process may run with.
GuardConfigs ==
    { [CfgOpen EXCEPT !.AllowedCIDRNets = nets, !.AllowedDomains = domains,
                      !.AllowedCountries = countries, !.RateLimit = l] :
        nets \in {{}, {{"a"}}},
        domains \in {<<>>, <<Host_x>>, << <<"*">> >>, <<Regex_y>>,
                     <<Host_x, Regex_y>>},
        countries \in {{}, {<<"d", "e">>}},
        l \in {0, 1} }

\* The guards alone, for requests that arrive within one tick.
GuardNext == \E d \in GuardRequests : Guard(d)

SpecGuard ==
    /\ \E c \in GuardConfigs : Init(c, {})
    /\ [][GuardNext]_vars

(***************************************************************************)
(* Properties of the guards.                                               *)
(***************************************************************************)
\* The last guarded request has a path the path check refuses.
GuardedInvalidPath ==
    guarded.done /\ InvalidPath(ObjectKey(Clean(guarded.path)))

\* C24: every request whose cleaned path is empty, contains ".." or equals
\* ".env" is answered 400 whatever the allowlists, the rate limit and the
\* remaining quota of the client are, and Limiter.Allow is not called for
\* it.
C24_InvalidPathAlways400 ==
    GuardedInvalidPath => guarded.status = 400 /\ ~guarded.asked

\* The peer of the last guarded request is in a configured CIDR.
PeerInCIDR == \E ipNet \in cfg.AllowedCIDRNets : guarded.peer \in ipNet

\* The Referer and Origin headers the last guarded request carries.
PresentHeaders == {guarded.referer, guarded.origin} \ {<<>>}

\* The host of header value v is an exact entry, or the list holds "*", or
\* a configured regex matches the host.
HostListed(v) ==
    /\ ~UrlParseFails(v)
    /\ LET entries == { cfg.AllowedDomains[i] :
                          i \in 1..Len(cfg.AllowedDomains) }
       IN  \/ <<"*">> \in entries
           \/ \E e \in entries : Head(e) # "^" /\ e = UrlHost(v)
           \/ \E e \in entries : Head(e) = "^" /\ MatchString(e, UrlHost(v))

RejectedByDomainStage ==
    guarded.status = 403 /\ guarded.stage \in {"domain", "ip"}

\* C25: the domain/IP stage rejects a request with 403 exactly when the
\* peer matches no configured CIDR and either domains are configured, a
\* Referer or Origin is present and no present header's host is listed, or
\* no domains are configured but CIDRs are; a peer in a configured CIDR
\* and a request with neither header are never rejected by the domain
\* check.
C25_DomainStageRejects ==
    guarded.done =>
        /\ RejectedByDomainStage <=>
               /\ ~PeerInCIDR
               /\ \/ /\ cfg.AllowedDomains # <<>>
                     /\ PresentHeaders # {}
                     /\ \A v \in PresentHeaders : ~HostListed(v)
                  \/ /\ cfg.AllowedDomains = <<>>
                     /\ cfg.AllowedCIDRNets # {}
        /\ PeerInCIDR => ~RejectedByDomainStage
        /\ PresentHeaders = {} => guarded.stage # "domain"

\* A request with two headers, neither listed, rejected by the domain
\* check of a process that also has CIDRs configured.
C25_Witness ==
    /\ RejectedByDomainStage
    /\ guarded.stage = "domain"
    /\ guarded.referer # <<>> /\ guarded.origin # <<>>
    /\ cfg.AllowedCIDRNets # {}

(***************************************************************************)
(* The configuration reads of one request while the configuration is       *)
(* reloaded: HandleRequest takes a snapshot, the functions it calls take    *)
(* their own.                                                              *)
(***************************************************************************)
\* The configurations a reload may install.
ReloadConfigs ==
    { [CfgOpen EXCEPT !.EnableVideoThumbnail = video,
                      !.MaxImageSizeMB = mb, !.CacheTTL = ttl] :
        video \in BOOLEAN, mb \in {0, 1}, ttl \in {24, 48} }

\* What a request comes to after the guards: a purge, a palette, a miss of
\* a passthrough variant, or a miss of a transformed variant.
RequestKinds == {"purge", "palette", "passthrough", "process"}

snapRest == << inputs, seeded, parsed, guarded, ortState, wm, transformed, aw,
               verified, derived, limiterVars, redisVars, s3call, pipeline, later >>

\* SIGHUP: the manager swaps the configuration.
Reload ==
    /\ \E c \in ReloadConfigs \ {cfg} : cfg' = c
    /\ UNCHANGED << snap, snapRest >>

\* HandleRequest: cfg := h.ConfigManager.Get()
Begin(kind) ==
    /\ snap.at \in {"idle", "done"}
    /\ snap' = [NoSnap EXCEPT !.at = "handler", !.kind = kind, !.taken = cfg]
    /\ UNCHANGED << cfg, snapRest >>

\* HandleRequest from the guards to the call of handlePurge, handlePalette
\* or updateCache: every decision reads the snapshot of the handler.
Decide ==
    /\ snap.at = "handler"
    /\ snap' = [snap EXCEPT !.at =
                    CASE snap.kind = "purge" -> "purge"
                      [] snap.kind = "palette" -> "palette"
                      [] OTHER -> "miss"]
    /\ UNCHANGED << cfg, snapRest >>

\* handlePurge: cfg := h.ConfigManager.Get(), read for the presets and
\* the video flag.
HandlePurge ==
    /\ snap.at = "purge"
    /\ snap' = [snap EXCEPT !.at = "done", !.purge = cfg]
    /\ UNCHANGED << cfg, snapRest >>

\* handlePalette: h.ConfigManager.Get().CacheTTL at Cache.Set.
HandlePalette ==
    /\ snap.at = "palette"
    /\ snap' = [snap EXCEPT !.at = "done", !.palette = cfg]
    /\ UNCHANGED << cfg, snapRest >>

\* updateCache: cfg := h.ConfigManager.Get(), read for the video flag and
\* the cache TTL.
UpdateCache ==
    /\ snap.at = "miss"
    /\ snap' = [snap EXCEPT
                   !.at = IF /\ snap.kind = "process"
                             /\ ~cfg.EnableVideoThumbnail
                          THEN "process" ELSE "done",
                   !.update = cfg]
    /\ UNCHANGED << cfg, snapRest >>

\* processAndSave: cfg := h.ConfigManager.Get(), read for the size cap.
ProcessAndSave ==
    /\ snap.at = "process"
    /\ snap' = [snap EXCEPT !.at = "done", !.size = cfg]
    /\ UNCHANGED << cfg, snapRest >>

ReloadNext ==
    \/ Reload
    \/ \E kind \in RequestKinds : Begin(kind)
    \/ Decide
    \/ HandlePurge
    \/ HandlePalette
    \/ UpdateCache
    \/ ProcessAndSave

SpecReload ==
    /\ \E c \in ReloadConfigs : Init(c, {})
    /\ [][ReloadNext]_vars

\* The configurations read on behalf of the request in flight after the
\* snapshot of HandleRequest.
LaterReads == {snap.update, snap.size, snap.purge, snap.palette} \ {NoConfig}

\* C26: all configuration-dependent decisions taken while handling one
\* request use the same configuration snapshot, also when a reload swaps
\* the configuration while the request is in flight.
C26_OneSnapshotPerRequest == \A c \in LaterReads : c = snap.taken

(***************************************************************************)
(* AiDetector.Detect: the inference session of the process, made by        *)
(* initORT under ortOnce, and the Detect calls of concurrent transforms.   *)
(***************************************************************************)
ortRest == << cfg, inputs, seeded, parsed, guarded, snap, wm, transformed, aw,
              verified, derived, limiterVars, redisVars, s3call, pipeline, later >>

\* Detect is called with a model path configured.
DetectCall(d) ==
    /\ ortState.at[d] = "idle"
    /\ ortState' = [ortState EXCEPT !.at[d] = "init"]
    /\ UNCHANGED ortRest

\* ortOnce.Do: the first caller runs the function; the session is made,
\* or ortError is set.
OnceRun(d) ==
    /\ ortState.at[d] = "init"
    /\ ortState.ortOnce = "fresh"
    /\ ortState' = [ortState EXCEPT !.ortOnce = "running",
                                    !.at[d] = "initializing"]
    /\ UNCHANGED ortRest

OnceDone(d) ==
    /\ ortState.at[d] = "initializing"
    /\ \E ok \in BOOLEAN :
         ortState' = [ortState EXCEPT
                        !.ortOnce = "done",
                        !.ortSession = ok,
                        !.ortError = ~ok,
                        !.created = IF ok THEN @ + 1 ELSE @,
                        !.at[d] = "check"]
    /\ UNCHANGED ortRest

\* ortOnce.Do for a later caller: returns once the function has returned.
OnceSkip(d) ==
    /\ ortState.at[d] = "init"
    /\ ortState.ortOnce = "done"
    /\ ortState' = [ortState EXCEPT !.at[d] = "check"]
    /\ UNCHANGED ortRest

\* Detect after initORT: gives up on ortError or a nil session, otherwise
\* prepares the input tensor, which may fail.
Preprocess(d) ==
    /\ ortState.at[d] = "check"
    /\ \E ok \in BOOLEAN :
         ortState' = [ortState EXCEPT !.at[d] =
                        IF ortState.ortError \/ ~ortState.ortSession \/ ~ok
                        THEN "idle" ELSE "ready"]
    /\ UNCHANGED ortRest

\* ortSession.Run is entered.
RunBegin(d) ==
    /\ ortState.at[d] = "ready"
    /\ ortState' = [ortState EXCEPT !.at[d] = "run"]
    /\ UNCHANGED ortRest

\* ortSession.Run returns, and Detect with it.
RunEnd(d) ==
    /\ ortState.at[d] = "run"
    /\ ortState' = [ortState EXCEPT !.at[d] = "idle"]
    /\ UNCHANGED ortRest

DetectNext ==
    \E d \in Detectors :
        \/ DetectCall(d)
        \/ OnceRun(d)
        \/ OnceDone(d)
        \/ OnceSkip(d)
        \/ Preprocess(d)
        \/ RunBegin(d)
        \/ RunEnd(d)

SpecDetect == Init(CfgOpen, {}) /\ [][DetectNext]_vars

\* The Detect calls inside ortSession.Run.
Running == { d \in Detectors : ortState.at[d] = "run" }

\* C27: the session of the process is created at most once, and at most
\* one Detect call is inside Run on it at any instant.
C27_OneSessionOneRun ==
    /\ ortState.created <= 1
    /\ Cardinality(Running) <= 1

(***************************************************************************)
(* watermark.Manager.Get: concurrent callers, and a watermark file whose   *)
(* modification time advances with each new version.  Version t of the     *)
(* file is the one with modification time t; an image is named by the      *)
(* version it was loaded from.                                             *)
(***************************************************************************)
wmRest == << cfg, inputs, seeded, parsed, guarded, snap, ortState, transformed,
             aw, verified, derived, limiterVars, redisVars, s3call, pipeline, later >>

\* The watermark file is replaced by a new version.
Touch ==
    /\ wm.modTime < MaxModTime
    /\ wm' = [wm EXCEPT !.modTime = @ + 1]
    /\ UNCHANGED wmRest

\* Get: os.Stat(m.path)
WmStat(g) ==
    /\ wm.at[g] = "idle"
    /\ wm' = [wm EXCEPT !.at[g] = "rlock", !.info[g] = wm.modTime,
                        !.got[g] = 0]
    /\ UNCHANGED wmRest

\* The test of Get: the file is not newer than the image held.
UpToDate(g) == ~(wm.info[g] > wm.lastModTime) /\ wm.currentImg # 0

\* A second test that never finds the image up to date.
UpToDateNever(g) == FALSE

\* The test of Get under the write lock.
DoubleChecked(g) == UpToDate(g)

\* Get under the read lock: returns the image held, or goes on to the
\* write lock.
WmRead(g) ==
    /\ wm.at[g] = "rlock"
    /\ wm.writer = 0
    /\ wm' = IF UpToDate(g)
             THEN [wm EXCEPT !.at[g] = "done", !.got[g] = wm.currentImg]
             ELSE [wm EXCEPT !.at[g] = "lock"]
    /\ UNCHANGED wmRest

\* m.mu.Lock()
WmLock(g) ==
    /\ wm.at[g] = "lock"
    /\ wm.writer = 0
    /\ wm' = [wm EXCEPT !.at[g] = "locked", !.writer = g]
    /\ UNCHANGED wmRest

\* Get under the write lock: the double check, then imaging.Open of the
\* file as it is now, and the stores of the image and of the time seen by
\* os.Stat.
WmLoad(g) ==
    /\ wm.at[g] = "locked"
    /\ wm' = IF DoubleChecked(g)
             THEN [wm EXCEPT !.at[g] = "done", !.writer = 0,
                             !.got[g] = wm.currentImg]
             ELSE [wm EXCEPT !.at[g] = "done", !.writer = 0,
                             !.currentImg = wm.modTime,
                             !.lastModTime = wm.info[g],
                             !.got[g] = wm.modTime,
                             !.loads[wm.info[g]] = IF @ < 2 THEN @ + 1 ELSE @]
    /\ UNCHANGED wmRest

\* Get has returned; the caller may call again.
WmReturn(g) ==
    /\ wm.at[g] = "done"
    /\ wm' = [wm EXCEPT !.at[g] = "idle"]
    /\ UNCHANGED wmRest

WatermarkNext ==
    \/ Touch
    \/ \E g \in Getters :
          \/ WmStat(g)
          \/ WmRead(g)
          \/ WmLock(g)
          \/ WmLoad(g)
          \/ WmReturn(g)

SpecWatermark == Init(CfgOpen, {}) /\ [][WatermarkNext]_vars

\* C28: under any interleaving of Get calls whose loads succeed, the
\* stored lastModTime never decreases, the image is loaded at most once
\* for each modification time of the file, and a Get that observed time t
\* returns an image loaded from a version of the file with time >= t.
C28_WatermarkReloads ==
    /\ [][wm'.lastModTime >= wm.lastModTime]_vars
    /\ [](\A t \in 1..MaxModTime : wm.loads[t] <= 1)
    /\ [](\A g \in Getters :
             wm.at[g] = "done" => wm.got[g] >= wm.info[g])

\* A Get that saw the file before its last change has loaded the newer
\* version while another Get, which saw the change, waits for the lock.
C28_Witness ==
    \E g \in Getters : \E h \in Getters :
        /\ wm.at[g] = "done" /\ wm.got[g] > wm.info[g]
        /\ wm.lastModTime = wm.info[g]
        /\ wm.at[h] = "lock" /\ wm.info[h] > wm.info[g]

(***************************************************************************)
(* processor.Process from the effects stage to the encoder.  An image is   *)
(* its size and the colours of two regions, the centre and the bottom      *)
(* right corner; a colour is a number.                                     *)
(***************************************************************************)
Image(width, centre, corner) ==
    [ width |-> width, centre |-> centre, corner |-> corner ]

\* Stage 2: the resize to the requested width.
Resize(img, opts) ==
    IF opts.Width > 0 THEN [img EXCEPT !.width = opts.Width] ELSE img

\* Stage 3: the watermark is composited over the bottom right corner.
Watermark(img, wmImg) ==
    IF wmImg # <<>> THEN [img EXCEPT !.corner = wmImg[1]] ELSE img

\* Stage 3.5: the text is composited over the centre, in its colour.
TextOverlay(img, text) ==
    IF text # <<>> THEN [img EXCEPT !.centre = text[1]] ELSE img

\* blurhash.Encode of the 32x32 thumbnail: the mean of the colours and
\* their first variation.
Blurhash(img) == << img.centre + img.corner, img.centre - img.corner >>

\* The encoder of the requested format.
Encode(img) == << img.width, img.centre, img.corner >>

\* Process: resize and effects, watermark, text overlay, then the blurhash
\* or the encoded image.
Process(img, opts, wmImg) ==
    LET shaped == Resize(img, opts)
        marked == Watermark(shaped, wmImg)
        titled == TextOverlay(marked, opts.Text)
    IN  IF opts.Blurhash THEN Blurhash(titled) ELSE Encode(titled)

\* The input images, the watermarks (none, or an image of one colour) and
\* the texts (none, or a text in one colour).
Colours == 0..1

InputImages == { Image(4, c, k) : c \in Colours, k \in Colours }

WatermarkImages == { <<>> } \cup { << c >> : c \in Colours }

Texts == { <<>>, << 1 >> }

\* One input image is processed twice with the same geometry, under two
\* watermark configurations and with two text parameters.
ProcessTwice(img, width, blurhash, wmA, wmB, textA, textB) ==
    /\ transformed' =
          [ done |-> TRUE,
            opts |-> [Width |-> width, Blurhash |-> blurhash],
            wmA |-> wmA, wmB |-> wmB, textA |-> textA, textB |-> textB,
            outA |-> Process(img, [Width |-> width, Blurhash |-> blurhash,
                                   Text |-> textA], wmA),
            outB |-> Process(img, [Width |-> width, Blurhash |-> blurhash,
                                   Text |-> textB], wmB) ]
    /\ UNCHANGED << cfg, inputs, seeded, parsed, guarded, snap, ortState, wm,
                    aw, verified, derived, limiterVars, redisVars, s3call,
                    pipeline, later >>

ProcessNext ==
    \E img \in InputImages, width \in {0, 2}, blurhash \in BOOLEAN,
       wmA \in WatermarkImages, wmB \in WatermarkImages,
       textA \in Texts, textB \in Texts :
        ProcessTwice(img, width, blurhash, wmA, wmB, textA, textB)

SpecProcess == Init(CfgOpen, {}) /\ [][ProcessNext]_vars

\* C30: for blurhash=true the string Process returns is the same whether
\* or not a watermark is configured and whatever the text parameter is:
\* the blurhash is taken before the watermark and text stages.
C30_BlurhashIgnoresOverlays ==
    transformed.done /\ transformed.opts.Blurhash =>
        transformed.outA = transformed.outB

(***************************************************************************)
(* storage.AtomicWrite on its own: one call after another on one           *)
(* destination path, each step of a call failing or not.  A file is the    *)
(* sequence of the chunks written to it, <<>> for no file at the           *)
(* destination path.                                                       *)
(***************************************************************************)
awRest == << cfg, inputs, seeded, parsed, guarded, snap, ortState, wm,
             transformed, verified, derived, limiterVars, redisVars, s3call,
             pipeline, later >>

\* What the readers of the callers deliver, in chunks.
Readers == { <<"p", "p">>, <<"q", "q">> }

EncodingTypes == {"identity", "gzip", "br"}

\* What the writer chosen for the encoding writes for a chunk.
Encoded(encodingType, chunk) ==
    CASE encodingType = "gzip" -> (IF chunk = "p" THEN "gzip(p)" ELSE "gzip(q)")
      [] encodingType = "br" -> (IF chunk = "p" THEN "br(p)" ELSE "br(q)")
      [] OTHER -> chunk

\* AtomicWrite is called: os.CreateTemp makes the temporary file, or fails
\* and the call returns its error.
AwCreateTemp(r, enc) ==
    /\ aw.at \in {"idle", "returned"}
    /\ \E ok \in BOOLEAN :
         aw' = [aw EXCEPT !.at = IF ok THEN "copy" ELSE "returned",
                          !.reader = r, !.encodingType = enc,
                          !.before = aw.dest,
                          !.tempExists = ok, !.temp = <<>>,
                          !.failed = ~ok]
    /\ UNCHANGED awRest

\* io.Copy, one chunk per step: the chunk is written, or the reader fails
\* or is cancelled and the call returns the error through the deferred
\* cleanup.
AwCopyChunk ==
    /\ aw.at = "copy"
    /\ \E ok \in BOOLEAN :
         aw' = IF ok
               THEN [aw EXCEPT !.temp =
                                   Append(@, Encoded(aw.encodingType,
                                                     aw.reader[Len(@) + 1])),
                               !.at = IF Len(aw.temp) + 1 = Len(aw.reader)
                                      THEN "replace" ELSE "copy"]
               ELSE [aw EXCEPT !.at = "cleanup", !.failed = TRUE]
    /\ UNCHANGED awRest

\* if FileExists(destPath) { os.Remove(destPath) }
AwRemoveDest ==
    /\ aw.at = "replace"
    /\ aw' = [aw EXCEPT !.at = "rename", !.dest = <<>>]
    /\ UNCHANGED awRest

\* os.Rename(tempName, destPath): the temporary file becomes the
\* destination, or the rename fails and the call returns its error through
\* the deferred cleanup.
AwRenameTemp ==
    /\ aw.at = "rename"
    /\ \E ok \in BOOLEAN :
         aw' = IF ok
               THEN [aw EXCEPT !.at = "cleanup", !.dest = aw.temp,
                               !.tempExists = FALSE, !.temp = <<>>]
               ELSE [aw EXCEPT !.at = "cleanup", !.failed = TRUE]
    /\ UNCHANGED awRest

\* The deferred function: tempFile.Close() and os.Remove(tempName); the
\* call returns.
AwCleanup ==
    /\ aw.at = "cleanup"
    /\ aw' = [aw EXCEPT !.at = "returned", !.tempExists = FALSE,
                        !.temp = <<>>]
    /\ UNCHANGED awRest

AtomicWriteNext ==
    \/ \E r \in Readers, enc \in EncodingTypes : AwCreateTemp(r, enc)
    \/ AwCopyChunk
    \/ AwRemoveDest
    \/ AwRenameTemp
    \/ AwCleanup

SpecAtomicWrite == Init(CfgOpen, {}) /\ [][AtomicWriteNext]_vars

\* C29: whenever AtomicWrite returns, no temporary file of the call
\* remains in the cache directory, and when it returns an error the
\* destination path holds exactly the content it held before the call.
C29_FailedWriteLeavesDest ==
    aw.at = "returned" =>
        /\ ~aw.tempExists
        /\ aw.failed => aw.dest = aw.before

(***************************************************************************)
(* Process, fit=cover with focus=face: the crop window around the largest  *)
(* detected face.  The requested sizes are 0 or a power of two, so that    *)
(* every float64 quotient the code forms is exact and int() of it is the   *)
(* floor of the exact quotient.                                            *)
(***************************************************************************)
cropRest == << others, pipeline, parsed, guarded, snap, ortState, wm,
               transformed, aw, sweep, handoff >>

MaxSide == 4

Sides == 1..MaxSide

RequestedSizes == {0, 1, 2, 4}

\* srcRatio > targetRatio, for targetRatio = Width / Height in float64:
\* +Inf when Height is 0.
SrcWider(cols, rows, Width, Height) ==
    Height # 0 /\ cols * Height > Width * rows

\* The window ExtractArea is called with.
FaceCrop(cols, rows, faceX, faceY, Width, Height) ==
    LET wider == SrcWider(cols, rows, Width, Height)
        cropH == IF wider THEN rows
                 ELSE IF Height = 0 THEN 0      \* int(cols / +Inf)
                 ELSE (cols * Height) \div Width
        cropW == IF wider THEN (rows * Width) \div Height ELSE cols
        xa == faceX - (cropW \div 2)
        ya == faceY - (cropH \div 2)
        xb == IF xa < 0 THEN 0 ELSE xa
        yb == IF ya < 0 THEN 0 ELSE ya
    IN  [ cropW |-> cropW, cropH |-> cropH,
          x0 |-> IF xb + cropW > cols THEN cols - cropW ELSE xb,
          y0 |-> IF yb + cropH > rows THEN rows - cropH ELSE yb ]

\* One call of Process reaches the crop: a size is requested (Width > 0 || Height > 0)
\* and the detector has found a face centred at (faceX, faceY).
CropFace(cols, rows, faceX, faceY, Width, Height) ==
    /\ ~crop.done
    /\ Width > 0 \/ Height > 0
    /\ LET win == FaceCrop(cols, rows, faceX, faceY, Width, Height)
       IN  crop' = [ done |-> TRUE, cols |-> cols, rows |-> rows,
                     faceX |-> faceX, faceY |-> faceY, Width |-> Width,
                     Height |-> Height, cropW |-> win.cropW,
                     cropH |-> win.cropH, x0 |-> win.x0, y0 |-> win.y0 ]
    /\ UNCHANGED cropRest

CropNext ==
    \E cols \in Sides, rows \in Sides :
      \E faceX \in 0..(cols - 1), faceY \in 0..(rows - 1) :
        \E Width \in RequestedSizes, Height \in RequestedSizes :
            CropFace(cols, rows, faceX, faceY, Width, Height)

SpecCrop == Init(CfgOpen, {}) /\ [][CropNext]_vars

\* C40: for fit=cover with focus=face and a detected face inside the
\* image, whatever the image size and the requested width and height (not
\* both zero), the crop window is at least one pixel wide and high, lies
\* inside the image and has the aspect ratio width/height up to integer
\* truncation.
C40_CropWindowInsideImage ==
    crop.done =>
        /\ crop.cropW >= 1
        /\ crop.cropH >= 1
        /\ 0 <= crop.x0 /\ crop.x0 + crop.cropW <= crop.cols
        /\ 0 <= crop.y0 /\ crop.y0 + crop.cropH <= crop.rows
        /\ \/ crop.cropW * crop.Height = crop.cropH * crop.Width
           \/ /\ crop.Height > 0
              /\ crop.cropW = (crop.cropH * crop.Width) \div crop.Height
           \/ /\ crop.Width > 0
              /\ crop.cropH = (crop.cropW * crop.Height) \div crop.Width

(***************************************************************************)
(* main and cache.StartCleaner: the hard TTL of the cleaner and one pass   *)
(* over the cache directory.  A time.Duration is an int64 of nanoseconds,  *)
(* kept as four limbs of 16 bits, least significant first, in two's       *)
(* complement: its arithmetic wraps at 64 bits as the program's does.      *)
(***************************************************************************)
sweepRest == << others, pipeline, parsed, guarded, snap, ortState, wm,
                transformed, aw, crop, handoff >>

Limb == 256 * 256

\* The int64 of a natural number below 2^31.
FromNat(n) == << n % Limb, (n \div Limb) % Limb, 0, 0 >>

\* -x
Negate(x) ==
    LET a == (Limb - 1 - x[1]) + 1
        b == (Limb - 1 - x[2]) + (a \div Limb)
        c == (Limb - 1 - x[3]) + (b \div Limb)
        d == (Limb - 1 - x[4]) + (c \div Limb)
    IN  << a % Limb, b % Limb, c % Limb, d % Limb >>

FromInt(n) == IF n >= 0 THEN FromNat(n) ELSE Negate(FromNat(0 - n))

\* x * m for 0 <= m < 2^15, wrapped to 64 bits.
MulSmall(x, m) ==
    LET a == x[1] * m
        b == x[2] * m + (a \div Limb)
        c == x[3] * m + (b \div Limb)
        d == x[4] * m + (c \div Limb)
    IN  << a % Limb, b % Limb, c % Limb, d % Limb >>

IsNegative(x) == x[4] >= Limb \div 2

\* x < y, as int64.
Less(x, y) ==
    IF IsNegative(x) # IsNegative(y) THEN IsNegative(x)
    ELSE \/ x[4] < y[4]
         \/ x[4] = y[4] /\ x[3] < y[3]
         \/ x[4] = y[4] /\ x[3] = y[3] /\ x[2] < y[2]
         \/ x[4] = y[4] /\ x[3] = y[3] /\ x[2] = y[2] /\ x[1] < y[1]

\* time.Duration(n) * time.Hour: 3600 * 10^9 nanoseconds to the hour.
Hours(n) ==
    MulSmall(MulSmall(MulSmall(MulSmall(FromInt(n), 3600), 1000), 1000), 1000)

\* main: hardTTL := cfg.CacheTTL * 24, or 7 days when that is below 24 h.
HardTTL(cacheTTL) ==
    LET h == MulSmall(cacheTTL, 24)
    IN  IF Less(h, Hours(24)) THEN Hours(7 * 24) ELSE h

\* The values of CACHE_TTL_HOURS the process may be started with: a
\* negative one, zero, an hour, the default, a week, and twelve years and
\* sixty-eight days, one hour below and at the value whose 24-fold passes
\* 2^63 nanoseconds.
TTLHours == {-1, 0, 1, 24, 168, 106751, 106752}

\* A directory listing: the ages, in hours, of the files in it.
Listings == { {}, {0}, {25}, {169}, {2000000}, {25, 2000000} }

\* time.Since(info.ModTime()) > hardTTL
OlderThan(age, hardTTL) == Less(hardTTL, Hours(age))

\* main up to the start of the cleaner, with the cache directory as an
\* earlier run has left it: files in the root and one subdirectory.
Boot(hours, rootFiles, subFiles) ==
    /\ sweep.at = "boot"
    /\ sweep' = [ at |-> "ticking", hours |-> hours,
                  CacheTTL |-> Hours(hours),
                  hardTTL |-> HardTTL(Hours(hours)),
                  rootExists |-> TRUE, rootFiles |-> rootFiles,
                  subExists |-> TRUE, subFiles |-> subFiles,
                  removed |-> {}, kept |-> {}, passes |-> 0 ]
    /\ UNCHANGED sweepRest

\* One tick of the cleaner: the first walk removes every file older than
\* the hard TTL; the second collects the directories other than the root,
\* and os.Remove succeeds on those that are empty.
CleanerPass ==
    /\ sweep.at = "ticking"
    /\ sweep.passes = 0
    /\ LET old(files) == { a \in files : OlderThan(a, sweep.hardTTL) }
           subLeft == sweep.subFiles \ old(sweep.subFiles)
       IN  sweep' = [sweep EXCEPT
                       !.rootFiles = @ \ old(@),
                       !.subFiles = subLeft,
                       !.subExists = sweep.subExists /\ subLeft # {},
                       !.removed = old(sweep.rootFiles)
                                     \cup old(sweep.subFiles),
                       !.kept = subLeft,
                       !.passes = 1]
    /\ UNCHANGED sweepRest

SweepNext ==
    \/ \E hours \in TTLHours, rootFiles \in Listings, subFiles \in Listings :
           Boot(hours, rootFiles, subFiles)
    \/ CleanerPass

SpecSweep == Init(CfgOpen, {}) /\ [][SweepNext]_vars

\* C33: a cleaner pass removes a cache file only if it is older than the
\* hard TTL, never removes the cache root or a non-empty subdirectory, and
\* the hard TTL computed at start-up is strictly greater than the soft TTL
\* whatever soft TTL is configured.
C33_HardTTLAboveSoftTTL ==
    sweep.at = "ticking" =>
        /\ Less(sweep.CacheTTL, sweep.hardTTL)
        /\ \A a \in sweep.removed : OlderThan(a, sweep.hardTTL)
        /\ sweep.rootExists
        /\ sweep.kept # {} => sweep.subExists

(***************************************************************************)
(* The way of an origin object into a transform: processAndSave,           *)
(* handlePalette and processVideoAndSave, each from its fetch to the call  *)
(* of the transform, for an object of a given size whose Content-Length    *)
(* the origin reports or not.                                              *)
(***************************************************************************)
handoffRest == << others, pipeline, parsed, guarded, snap, ortState, wm,
                  transformed, aw, crop, sweep >>

\* The sizes, in bytes, of the objects at the origin.
ActualSizes == {1, MiB, MiB + 1, 404 * MiB, 405 * MiB}

\* S3Client.GetObject: the size returned for an object of the primary
\* bucket whose response carries a Content-Length or not.
ReturnedSize(actual, known) ==
    ContentLength(Object("primary", IF known THEN actual ELSE -1))

\* processAndSave: GetObject, the size check on the returned size, Process.
processAndSave(actual, known) ==
    LET size == ReturnedSize(actual, known)
    IN  handoff' = [ done |-> TRUE, transform |-> "Process",
                     actual |-> actual, reported |-> size,
                     handed |-> ~TooLarge(size, cfg),
                     err |-> IF TooLarge(size, cfg) THEN "FileSize"
                             ELSE "nil" ]

\* handlePalette: GetObject, whose size is dropped, ExtractPalette.
handlePalette(actual, known) ==
    handoff' = [ done |-> TRUE, transform |-> "ExtractPalette",
                 actual |-> actual,
                 reported |-> ReturnedSize(actual, known),
                 handed |-> TRUE, err |-> "nil" ]

\* processVideoAndSave: the frame extractor reads the object through a
\* presigned URL, or from the temporary file GetObject was copied to; the
\* size GetObject returns is dropped.
processVideoAndSave(actual, known, presigned) ==
    handoff' = [ done |-> TRUE, transform |-> "GenerateThumbnail",
                 actual |-> actual,
                 reported |-> IF presigned THEN 0
                              ELSE ReturnedSize(actual, known),
                 handed |-> TRUE, err |-> "nil" ]

HandoffNext ==
    \E actual \in ActualSizes, known \in BOOLEAN :
        /\ \/ processAndSave(actual, known)
           \/ handlePalette(actual, known)
           \/ \E presigned \in BOOLEAN :
                  processVideoAndSave(actual, known, presigned)
        /\ UNCHANGED handoffRest

SpecHandoff ==
    /\ \E c \in SizeConfigs : Init(c, {})
    /\ [][HandoffNext]_vars

\* C38: with a maximum input size configured, no origin object larger than
\* it is handed to a transform (Process, palette extraction, video frame
\* extraction), also when the origin reports no content length.
C38_OversizeNeverTransformed ==
    handoff.done /\ cfg.MaxImageSizeMB > 0 /\ handoff.handed =>
        handoff.actual <= cfg.MaxImageSizeMB * MiB

(***************************************************************************)
(* Properties of freshness, revalidation and the tiers.                    *)
(***************************************************************************)
\* Goroutine g takes the step that commits to the path of k, or the
\* os.Chtimes that ends its AtomicWrite.
Commits(g, k) ==
    /\ KeyOf(g) = k
    /\ pc[g] \in {"aw_rename", "aw_chtimes"}
    /\ pc'[g] # pc[g]

\* C35: serving a disk entry does not change its freshness: the time that
\* is compared with the soft TTL advances only when a miss resolution or a
\* revalidation commits, so an entry that is stale stays stale, however
\* often it is served, until a commit.
C35_OnlyCommitRefreshes ==
    [][\A k \in DOMAIN dest :
           /\ dest[k].exists
           /\ dest[k].age # "fresh"
           /\ dest'[k].exists
           /\ dest'[k].age = "fresh"
           => \E g \in Goroutines : Commits(g, k)]_vars

\* Every request of the behaviour has found the entry of k stale in its
\* disk probe; no further TTL has lapsed on the entry, nothing has removed
\* it and no producer of it has failed.
StaleBurst(k) ==
    /\ seeded[k] /\ ~aged[k] /\ ~unlinked[k] /\ ~failed[k]
    /\ \A r \in Handlers : probe[r] = "stale" /\ key[r] = k

\* C36: when the concurrent GETs all observe the same stale entry, the
\* origin is fetched once for its revalidation: a revalidation that starts
\* after another one of the key has committed does not fetch again.
C36_StaleBurstFetchesOnce ==
    \A k \in DOMAIN fetches : StaleBurst(k) => fetches[k] <= 1

PurgeSteps == {"purge_l1", "purge_l2", "purge_disk"}

\* No producer of k is running and no purge of k is in progress.
AtRest(k) ==
    /\ Producers(k) = {}
    /\ \A r \in Handlers : pc[r] \in PurgeSteps => key[r] # k

\* C39: for a processed cache key, whenever no producer of the key is
\* running and no purge of it is in progress, the memory or remote tier
\* holds the key only if the disk holds it too: after a purge that ran
\* concurrently with a miss resolution or a revalidation, the key is in all
\* tiers or in none.  (No TTL lapses on the entry meanwhile.)
C39_TiersConsistentAtRest ==
    \A k \in DOMAIN dest :
        AtRest(k) /\ ~aged[k] /\ (mem[k] # <<>> \/ remote[k] # <<>>) =>
            dest[k].exists

\* A processed variant against a remote tier that holds it or not, and a
\* passthrough asset; the cache directory is empty at start-up.
TierScenarios ==
    { [cfg |-> CfgOpen, warm |-> {TRUE, FALSE}, requests |-> ResizeRequests],
      [cfg |-> CfgOpen, warm |-> {FALSE},
       requests |-> Pair(Path_css, <<>>, <<>>, Str_br)] }

SpecTiers ==
    /\ \E sc \in TierScenarios :
          Start(sc.cfg, sc.requests, sc.warm) /\ EmptyDisk
    /\ [][Next]_vars

\* The step writes bytes to the memory or the remote tier under key k.
TierWrite(k) ==
    \/ mem'[k] # mem[k] /\ mem'[k] # <<>>
    \/ remote'[k] # remote[k] /\ remote'[k] # <<>>

\* The step is a write of updateCache: by a producer of k that works on a
\* processed variant and has committed the bytes it writes to the disk.
ProducerWrite(k) ==
    \E g \in Goroutines :
        /\ KeyOf(g) = k
        /\ pc[g] \in {"set_l1", "set_l2"}
        /\ ShouldProcess(ObjectKey(rq[Owner(g)].path),
                         NegotiatedOptions(ObjectKey(rq[Owner(g)].path),
                                           ParseQuery(rq[Owner(g)].query),
                                           rq[Owner(g)].accept, cfg), cfg)
        /\ committed[k]
        /\ ~temp[g].exists
        /\ mem'[k] \in {mem[k], Payload(g)}
        /\ remote'[k] \in {remote[k], Payload(g)}

\* The step is the back-population of TieredCache.Get: the memory tier
\* takes the bytes the handler has just read from the remote tier.
BackPopulation(k) ==
    \E r \in Handlers :
        /\ key[r] = k
        /\ pc[r] = "cache_fill"
        /\ body[r] # <<>>
        /\ mem'[k] = body[r]
        /\ remote'[k] = remote[k]

\* C37 as stated: the memory and remote tiers are written only by a
\* producer, after the disk commit of the same bytes in the same run.
C37_TiersWrittenAfterCommit ==
    [][\A k \in DOMAIN mem : TierWrite(k) => ProducerWrite(k)]_vars

\* C37, amended: the memory and remote tiers are written by a producer only
\* after its disk commit of the same bytes, never for a passthrough payload
\* and never by a run that failed; the one other write is the
\* back-population of the memory tier with the bytes found in the remote
\* tier.
C37_TiersWrittenAfterCommitOrFill ==
    [][\A k \in DOMAIN mem :
           TierWrite(k) => ProducerWrite(k) \/ BackPopulation(k)]_vars

\* A producer has committed its payload and written it to both tiers.
C37_Witness ==
    \E g \in Goroutines :
        /\ KeyOf(g) # <<>>
        /\ dest[KeyOf(g)].exists
        /\ dest[KeyOf(g)].content = Payload(g)
        /\ mem[KeyOf(g)] = Payload(g)
        /\ remote[KeyOf(g)] = Payload(g)

(***************************************************************************)
(* Properties of requests whose clients go away.                           *)
(***************************************************************************)
SpecCancel == Init(CfgOpen, ResizeRequests) /\ [][NextCancel]_vars

\* C31: once a stale hit has started its revalidation, cancellation or
\* completion of the request that started it does not cancel the origin
\* fetch or the commit of the revalidation: no revalidation ever returns
\* the error of a context that was done.
C31_RevalidationOutlivesRequest ==
    \A r \in Handlers : Bg(r) \notin faults.aborted

\* The request of r was cancelled before its revalidation came to the
\* origin fetch, its handler has returned, and the revalidation has
\* committed what it produced.
C31_Witness ==
    \E r \in Handlers :
        /\ faults.cancelled[r] = "before_fetch"
        /\ probe[r] = "stale"
        /\ pc[r] = "done"
        /\ dest[key[r]].exists
        /\ dest[key[r]].content = Payload(Bg(r))

\* C34: the cancellation of one request never fails another, live request
\* of the same cache key: a GET whose client has not gone away is never
\* answered with the error of a cancelled context.
C34_LiveRequestNeverCancelled ==
    \A r \in Handlers :
        Answered(r) /\ faults.cancelled[r] = "no" => doErr[r] # "canceled"

(***************************************************************************)
(* Properties of requests against a failing remote tier.                   *)
(***************************************************************************)
SpecStore ==
    Start(CfgOpen, ResizeRequests, {TRUE, FALSE}) /\ [][NextStore]_vars

\* What the origin fetch, the transform or the disk commit of a producer
\* returns when it fails.
ProducerErrors == {"NotFound", "FileSize", "error"}

\* C32: a failure of the memory/remote store never fails a GET: a store
\* whose Get fails is a miss, and a store whose Set fails after the disk
\* commit leaves the request answered 200 from the committed file.  For a
\* key the disk did not hold when the requests arrived, unless the producer
\* failed at the origin, the transform or the disk, or a purge removed the
\* file, every answered GET is a 200 with a complete payload.
C32_StoreFailureNeverFailsGet ==
    \A r \in Handlers :
        /\ Answered(r)
        /\ ~seeded[key[r]]
        /\ doErr[r] \notin ProducerErrors
        /\ ~unlinked[key[r]]
        => status[r] = 200 /\ Complete(body[r])

\* The remote tier held the key and did not answer the Get of r; r went to
\* the origin and committed, the Set of its producer failed too, and r was
\* answered 200 with the bytes it committed.
C32_Witness ==
    \E r \in Handlers :
        /\ Answered(r)
        /\ "tier_error" \in touched[r]
        /\ "origin" \in touched[r]
        /\ ~seeded[key[r]]
        /\ remote[key[r]] = Payload(0)
        /\ ~faults.remoteUp
        /\ status[r] = 200
        /\ body[r] = Payload(r)

====
